---- MODULE Spec2Model ----
(***************************************************************************)
(* A model of chex's version-checking engine (internal/checker/checker.go),*)
(* of the exit status of the output package and of the configuration       *)
(* loader (internal/config).                                               *)
(*                                                                         *)
(* Go strings are modelled as sequences of characters; a character is a    *)
(* one-character TLA+ string, except for the two-byte rune U+00E9 which is *)
(* written "U+00E9".  Quantities the code measures in bytes (len) are      *)
(* computed with ByteLen; quantities in runes with Len.                    *)
(***************************************************************************)
EXTENDS Integers, Sequences, FiniteSets, TLC

VARIABLES
    tool,           \* the *config.Tool handed to Check
    onPath,         \* environment: does exec.LookPath(tool.CLI) resolve
    env,            \* environment: behaviour of the command per argument list
    pc,             \* position of the running call
    idx,            \* loop index over commonVersionArgs (1-based)
    elapsed,        \* seconds of the shared context's budget already used
    calls,          \* history: one record per runCommand call, in order
    versionOutput,  \* checkVersion's local versionOutput
    result,         \* the *Result under construction / returned
    stages,         \* history: stages of the check that ran, in order
    text,           \* argument of a pure-function call
    pat,            \* pattern argument of a pure-function call
    ret,            \* value returned by a pure-function call
    tools,          \* CheckAll: the map from key to *config.Tool
    filter,         \* CheckAll: the requested keys
    order,          \* CheckAll: the keys in the order the loop visits them
    pos,            \* CheckAll: position of the loop in order (1-based)
    results,        \* CheckAll: the results appended so far
    world,          \* environment of CheckAll: per command, found and behaviour
    checked,        \* history: the descriptors handed to Check, in order
    fs,             \* LoadAndMerge: the configuration files of the root directory
    console         \* runCheck: what it wrote, returned and whether it exited

\* the state of CheckAll and the state of LoadAndMerge
allVars == <<tools, filter, order, pos, results, world, checked>>
cfgVars == <<fs>>
runVars == <<console>>

vars == <<tool, onPath, env, pc, idx, elapsed, calls, versionOutput, result,
          stages, text, pat, ret, allVars, cfgVars, runVars>>

----------------------------------------------------------------------------
(* Characters and the string primitives of Go's strings package.           *)

Digits == {"0", "1", "2", "3", "4", "5", "6", "7", "8", "9"}

\* unicode.IsSpace on the characters of the model
IsSpace(c) == c \in {" ", "\t", "\n", "\r"}

\* number of bytes of the UTF-8 encoding of a character
CharBytes(c) == IF c = "U+00E9" THEN 2 ELSE 1

\* Go's len(s) on a string: bytes, not runes (a character has 1 or 2 bytes)
ByteLen(s) == Len(s) + Cardinality({i \in 1..Len(s) : CharBytes(s[i]) = 2})

\* unicode.ToLower on the characters of the model
ToLowerChar(c) ==
    CASE c = "H" -> "h"
      [] c = "U" -> "u"
      [] c = "E" -> "e"
      [] c = "V" -> "v"
      [] OTHER -> c

\* strings.ToLower
ToLower(s) == [i \in 1..Len(s) |-> ToLowerChar(s[i])]

\* strings.Contains
Contains(s, sub) ==
    \E i \in 1..(Len(s) - Len(sub) + 1) : SubSeq(s, i, i + Len(sub) - 1) = sub

\* index of the first sep of s, or Len(s)+1 when there is none
FirstIndex(s, sep) ==
    IF \E i \in 1..Len(s) : s[i] = sep
    THEN CHOOSE i \in 1..Len(s) : s[i] = sep /\ \A j \in 1..(i - 1) : s[j] # sep
    ELSE Len(s) + 1

RECURSIVE SplitOn(_, _)
\* strings.Split(s, sep) for a one-character sep: always at least one element
SplitOn(s, sep) ==
    LET n == FirstIndex(s, sep) IN
    IF n > Len(s) THEN <<s>>
    ELSE <<SubSeq(s, 1, n - 1)>> \o SplitOn(SubSeq(s, n + 1, Len(s)), sep)

\* strings.Split(s, "\n")
Split(s) == SplitOn(s, "\n")

RECURSIVE Fields(_)
\* strings.Fields: the maximal runs of non-space characters
Fields(s) ==
    IF s = <<>> THEN <<>>
    ELSE IF IsSpace(Head(s)) THEN Fields(Tail(s))
    ELSE LET stops == {i \in 1..Len(s) : IsSpace(s[i])}
             stop == IF stops = {} THEN Len(s) + 1
                     ELSE CHOOSE i \in stops : \A j \in stops : i <= j
         IN  <<SubSeq(s, 1, stop - 1)>> \o Fields(SubSeq(s, stop, Len(s)))

\* strings.TrimSpace
TrimSpace(s) ==
    LET keep == {i \in 1..Len(s) : ~IsSpace(s[i])} IN
    IF keep = {} THEN <<>>
    ELSE LET lo == CHOOSE i \in keep : \A j \in keep : i <= j
             hi == CHOOSE i \in keep : \A j \in keep : j <= i
         IN SubSeq(s, lo, hi)

\* n copies of the character c
Repeat(c, n) == [i \in 1..n |-> c]

----------------------------------------------------------------------------
(* looksLikeVersionOutput                                                  *)

\* the length gate of looksLikeVersionOutput
MaxFirstLineLen == 200

rejectPatterns ==
    << <<"u", "s", "a", "g", "e", ":">>,
       <<"e", "r", "r", "o", "r", ":">>,
       <<"f", "l", "a", "g", " ", "p", "r", "o", "v", "i", "d", "e", "d">>,
       <<"u", "n", "k", "n", "o", "w", "n", " ", "f", "l", "a", "g">>,
       <<"u", "n", "k", "n", "o", "w", "n", " ", "c", "o", "m", "m", "a", "n", "d">>,
       <<"h", "e", "l", "p">>,
       <<"f", "a", "i", "l", "e", "d", " ", "v", "a", "l", "i", "d", "a", "t", "i", "o", "n">> >>

\* none of rejectPatterns occurs in the lower-cased line
noRejectPattern(lowerFirstLine) ==
    \A k \in 1..Len(rejectPatterns) : ~Contains(lowerFirstLine, rejectPatterns[k])

\* hasVersionPattern: a "." and a digit
hasVersionPattern(firstLine) ==
    Contains(firstLine, <<".">>) /\ \E i \in 1..Len(firstLine) : firstLine[i] \in Digits

\* the checks of looksLikeVersionOutput on the line it measures (rawLine) and
\* the trimmed first line
looksLikeLine(rawLine, firstLine) ==
    IF ByteLen(rawLine) > MaxFirstLineLen THEN FALSE
    ELSE IF ~noRejectPattern(ToLower(firstLine)) THEN FALSE
    ELSE hasVersionPattern(firstLine)

\* mutant: the first line is measured before it is trimmed
looksLikeVersionOutput_untrimmed(output) ==
    looksLikeLine(Split(output)[1], TrimSpace(Split(output)[1]))

looksLikeVersionOutput(output) ==
    IF Len(Split(output)) = 0 THEN FALSE
    ELSE looksLikeLine(TrimSpace(Split(output)[1]), TrimSpace(Split(output)[1]))

----------------------------------------------------------------------------
(* Go's regexp package, on the family of patterns the model uses.  A       *)
(* compiled pattern is  [^] [lit | (lit) ] [?]  number , where number is   *)
(* \d+\.\d+ , \d+\.\d+\.\d+ or \d+\.\d+(\.\d+)? , possibly in a capture    *)
(* group.  Matching is leftmost-first, as in Go.                           *)

PatGroup == "v(\\d+\\.\\d+)"
PatPlain == "\\d+\\.\\d+"
PatOptGroup == "(v)?\\d+\\.\\d+"
PatAnchored == "^(\\d+\\.\\d+)"
PatInvalid == "("

\* the pattern extractVersion compiles for its default heuristic
defaultVersionRe ==
    [anchor |-> FALSE, lit |-> <<>>, litOpt |-> FALSE, litGroup |-> FALSE,
     numGroup |-> FALSE, comps |-> 2, optThird |-> TRUE]

\* regexp.Compile: [ok, re]
regexpCompile(pattern) ==
    CASE pattern = PatGroup ->
            [ok |-> TRUE,
             re |-> [anchor |-> FALSE, lit |-> <<"v">>, litOpt |-> FALSE, litGroup |-> FALSE,
                     numGroup |-> TRUE, comps |-> 2, optThird |-> FALSE]]
      [] pattern = PatPlain ->
            [ok |-> TRUE,
             re |-> [anchor |-> FALSE, lit |-> <<>>, litOpt |-> FALSE, litGroup |-> FALSE,
                     numGroup |-> FALSE, comps |-> 2, optThird |-> FALSE]]
      [] pattern = PatOptGroup ->
            [ok |-> TRUE,
             re |-> [anchor |-> FALSE, lit |-> <<"v">>, litOpt |-> TRUE, litGroup |-> TRUE,
                     numGroup |-> FALSE, comps |-> 2, optThird |-> FALSE]]
      [] pattern = PatAnchored ->
            [ok |-> TRUE,
             re |-> [anchor |-> TRUE, lit |-> <<>>, litOpt |-> FALSE, litGroup |-> FALSE,
                     numGroup |-> TRUE, comps |-> 2, optThird |-> FALSE]]
      [] OTHER -> [ok |-> FALSE, re |-> defaultVersionRe]

RECURSIVE DigitsEnd(_, _)
\* last index of the maximal run of digits of s that starts at i; i-1 if none
DigitsEnd(s, i) ==
    IF i <= Len(s) /\ s[i] \in Digits THEN DigitsEnd(s, i + 1) ELSE i - 1

\* s has a "." right after index e
DotAfter(s, e) == e + 1 <= Len(s) /\ s[e + 1] = "."

\* the optional or required third component, whose digits end at e3
NumberThird(re, e2, e3) ==
    IF e3 >= e2 + 2 THEN e3 ELSE IF re.comps = 3 THEN 0 ELSE e2

\* after \d+\. : the second component's digits end at e2
NumberSecond(re, s, e1, e2) ==
    IF e2 < e1 + 2 THEN 0
    ELSE IF (re.comps = 3 \/ re.optThird) /\ DotAfter(s, e2)
    THEN NumberThird(re, e2, DigitsEnd(s, e2 + 2))
    ELSE IF re.comps = 3 THEN 0 ELSE e2

\* after \d+ : the first component's digits end at e1
NumberFirst(re, s, i, e1) ==
    IF e1 >= i /\ DotAfter(s, e1)
    THEN NumberSecond(re, s, e1, DigitsEnd(s, e1 + 2))
    ELSE 0

\* the number of re at position i: the last index matched, 0 if no match.
\* \d+ is greedy; no shorter run can be followed by "."
NumberEnd(re, s, i) == NumberFirst(re, s, i, DigitsEnd(s, i))

\* the literal of re stands at position i
LitAt(re, s, i) ==
    i + Len(re.lit) - 1 <= Len(s) /\ SubSeq(s, i, i + Len(re.lit) - 1) = re.lit

\* the match at i given where the number ends with the literal taken
\* (endWith) and with an optional literal skipped (endWithout); the literal
\* is preferred, as ? is greedy.  A group that takes no part is "".
MatchPick(re, s, i, endWith, endWithout) ==
    IF endWith > 0
    THEN [ok |-> TRUE, whole |-> SubSeq(s, i, endWith),
          group |-> IF re.litGroup THEN re.lit ELSE SubSeq(s, i + Len(re.lit), endWith)]
    ELSE IF endWithout > 0
    THEN [ok |-> TRUE, whole |-> SubSeq(s, i, endWithout),
          group |-> IF re.litGroup THEN <<>> ELSE SubSeq(s, i, endWithout)]
    ELSE [ok |-> FALSE, whole |-> <<>>, group |-> <<>>]

\* the match of re that starts at position i: [ok, whole, group]
MatchAt(re, s, i) ==
    MatchPick(re, s, i,
              IF LitAt(re, s, i) THEN NumberEnd(re, s, i + Len(re.lit)) ELSE 0,
              IF re.litOpt THEN NumberEnd(re, s, i) ELSE 0)

\* the start positions where re matches
MatchStarts(re, s) ==
    {i \in 1..Len(s) : (re.anchor => i = 1) /\ MatchAt(re, s, i).ok}

\* the least element of a non-empty set of positions
MinOf(S) == CHOOSE i \in S : \A j \in S : i <= j

\* the submatches of a match: the whole match, then one entry per group
Submatches(re, m) ==
    IF re.litGroup \/ re.numGroup THEN <<m.whole, m.group>> ELSE <<m.whole>>

\* the leftmost match among starts
SubmatchAmong(re, s, starts) ==
    IF starts = {} THEN <<>> ELSE Submatches(re, MatchAt(re, s, MinOf(starts)))

\* (*Regexp).FindStringSubmatch: <<>> (nil) without a match
FindStringSubmatch(re, s) == SubmatchAmong(re, s, MatchStarts(re, s))

\* (*Regexp).FindString: "" without a match
FindString(re, s) ==
    IF FindStringSubmatch(re, s) = <<>> THEN <<>> ELSE FindStringSubmatch(re, s)[1]

----------------------------------------------------------------------------
(* extractVersion.  An error value is a sequence of message parts; nil is  *)
(* the empty sequence.                                                     *)

NoError == <<>>

RECURSIVE defaultScan_firstLine(_)
\* mutant: the scan gives up after the first line that is not blank
defaultScan_firstLine(lines) ==
    IF lines = <<>> THEN [version |-> <<>>, err |-> <<"no version found in output">>]
    ELSE IF TrimSpace(Head(lines)) = <<>> THEN defaultScan_firstLine(Tail(lines))
    ELSE IF FindString(defaultVersionRe, TrimSpace(Head(lines))) # <<>>
    THEN [version |-> FindString(defaultVersionRe, TrimSpace(Head(lines))),
          err |-> NoError]
    ELSE [version |-> <<>>, err |-> <<"no version found in output">>]

RECURSIVE defaultScan(_)
\* the default loop of extractVersion over the lines still to visit
defaultScan(lines) ==
    IF lines = <<>> THEN [version |-> <<>>, err |-> <<"no version found in output">>]
    ELSE IF TrimSpace(Head(lines)) = <<>> THEN defaultScan(Tail(lines))
    ELSE IF FindString(defaultVersionRe, TrimSpace(Head(lines))) # <<>>
    THEN [version |-> FindString(defaultVersionRe, TrimSpace(Head(lines))),
          err |-> NoError]
    ELSE defaultScan(Tail(lines))

\* extractVersion's result from what FindStringSubmatch returned
fromMatches(matches) ==
    IF Len(matches) > 1 THEN [version |-> matches[2], err |-> NoError]
    ELSE IF Len(matches) > 0 THEN [version |-> matches[1], err |-> NoError]
    ELSE [version |-> <<>>, err |-> <<"pattern did not match">>]

\* extractVersion's result for a custom pattern, c being what Compile returned
fromPattern(c, output) ==
    IF ~c.ok
    THEN [version |-> <<>>, err |-> <<"invalid version pattern: ", "error parsing regexp">>]
    ELSE fromMatches(FindStringSubmatch(c.re, output))

RECURSIVE perLine(_, _)
\* the first line of lines on which the compiled pattern c matches
perLine(c, lines) ==
    IF lines = <<>> THEN <<>>
    ELSE IF FindStringSubmatch(c.re, Head(lines)) # <<>> THEN Head(lines)
    ELSE perLine(c, Tail(lines))

\* mutant: the pattern is applied line by line, like the default heuristic
extractVersion_perLine(output, pattern) ==
    IF pattern # ""
    THEN fromPattern(regexpCompile(pattern), perLine(regexpCompile(pattern), Split(output)))
    ELSE defaultScan(Split(output))

\* extractVersion(output, pattern): [version, err]
extractVersion(output, pattern) ==
    IF pattern # ""
    THEN fromPattern(regexpCompile(pattern), output)
    ELSE defaultScan(Split(output))

----------------------------------------------------------------------------
(* github.com/Masterminds/semver/v3 on the inputs of the model.            *)
(* NewVersion accepts an optional leading "v" and one to three numeric     *)
(* components; a missing component is 0.                                   *)

DigitVal(c) ==
    CASE c = "0" -> 0 [] c = "1" -> 1 [] c = "2" -> 2 [] c = "3" -> 3 [] c = "4" -> 4
      [] c = "5" -> 5 [] c = "6" -> 6 [] c = "7" -> 7 [] c = "8" -> 8 [] c = "9" -> 9

RECURSIVE ParseUint(_)
\* strconv.ParseUint of a non-empty run of digits
ParseUint(s) ==
    IF s = <<>> THEN 0 ELSE ParseUint(SubSeq(s, 1, Len(s) - 1)) * 10 + DigitVal(s[Len(s)])

\* semver.NewVersion: [ok, ver] with ver = <<major, minor, patch>>
NewVersion(v) ==
    LET body == IF v # <<>> /\ Head(v) = "v" THEN Tail(v) ELSE v
        parts == SplitOn(body, ".")
        numeric(part) == part # <<>> /\ \A i \in 1..Len(part) : part[i] \in Digits
        seg(k) == IF k <= Len(parts) THEN ParseUint(parts[k]) ELSE 0
    IN  IF Len(parts) <= 3 /\ \A k \in 1..Len(parts) : numeric(parts[k])
        THEN [ok |-> TRUE, ver |-> <<seg(1), seg(2), seg(3)>>]
        ELSE [ok |-> FALSE, ver |-> <<0, 0, 0>>]

ConstraintGe120 == ">=1.2.0"
ConstraintBad == "not-a-constraint"

\* semver.NewConstraint: [ok, op, ver]
NewConstraint(c) ==
    CASE c = ConstraintGe120 -> [ok |-> TRUE, op |-> ">=", ver |-> <<1, 2, 0>>]
      [] OTHER -> [ok |-> FALSE, op |-> "", ver |-> <<0, 0, 0>>]

\* (*Version).Compare < 0
VersionLess(a, b) ==
    \/ a[1] < b[1]
    \/ a[1] = b[1] /\ a[2] < b[2]
    \/ a[1] = b[1] /\ a[2] = b[2] /\ a[3] < b[3]

\* (*Constraints).Check
constraintCheck(c, v) == c.op = ">=" /\ ~VersionLess(v, c.ver)

----------------------------------------------------------------------------
(* The environment: the search path and the behaviour of the command.      *)

\* the 5*time.Second of the context executeVersionCommand creates
Timeout == 5

OutVersion == <<"v", "1", ".", "2", ".", "3", "\n">>
OutOld == <<"1", ".", "1">>
OutHelp == <<"U", "s", "a", "g", "e", ":", " ", "g", "o", " ", "1", ".", "2">>
OutNoVer == <<"r", "e", "v", " ", "7", ".">>

\* what the command does when started with some argument list: the text it
\* writes, whether it exits with status 0, and the seconds it runs
Behaviours ==
    { [out |-> OutVersion, exitOK |-> TRUE, dur |-> 0],
      [out |-> OutOld, exitOK |-> FALSE, dur |-> 0],
      [out |-> OutNoVer, exitOK |-> TRUE, dur |-> 0],
      [out |-> OutHelp, exitOK |-> FALSE, dur |-> 0],
      [out |-> <<>>, exitOK |-> FALSE, dur |-> 2],
      [out |-> <<>>, exitOK |-> TRUE, dur |-> 6],
      [out |-> OutVersion, exitOK |-> TRUE, dur |-> 6] }

\* no behaviour observed (yet) for an argument list
NoBehaviour == [out |-> <<>>, exitOK |-> FALSE, dur |-> -1]

\* (*exec.Cmd).Run under a context that has used e seconds of its budget:
\* nothing is started when the command does not resolve or the context is
\* done; a process still running at the deadline is killed
cmdRun(found, b, e) ==
    IF ~found
    THEN [out |-> <<>>, err |-> <<"exec: executable file not found in $PATH">>,
          started |-> FALSE, killed |-> FALSE, elapsed |-> e]
    ELSE IF e >= Timeout
    THEN [out |-> <<>>, err |-> <<"context deadline exceeded">>,
          started |-> FALSE, killed |-> FALSE, elapsed |-> e]
    ELSE IF e + b.dur > Timeout
    THEN [out |-> b.out, err |-> <<"signal: killed">>,
          started |-> TRUE, killed |-> TRUE, elapsed |-> Timeout]
    ELSE [out |-> b.out, err |-> IF b.exitOK THEN NoError ELSE <<"exit status 1">>,
          started |-> TRUE, killed |-> FALSE, elapsed |-> e + b.dur]

----------------------------------------------------------------------------
(* Tool descriptors and results.                                           *)

StatusPass == "pass"
StatusFail == "fail"
StatusOptionalMissing == "optional_missing"

ArgVersion == <<"v", "e", "r", "s", "i", "o", "n">>
ArgBlank == <<" ">>
ArgTwo == <<"-", "v", " ", "-", "V">>

VersionArgs == {<<>>, ArgVersion, ArgBlank, ArgTwo}

Tools ==
    [Name : {"go"}, CLI : {"go"},
     Version : {"", ConstraintGe120, ConstraintBad},
     VersionArg : VersionArgs,
     VersionPattern : {"", PatGroup, PatOptGroup, PatInvalid},
     Optional : BOOLEAN]

\* mutant: the last argument set is left out of the smart-guess sequence
commonVersionArgs_five ==
    << << <<"-", "-", "v", "e", "r", "s", "i", "o", "n">> >>,
       << ArgVersion >>,
       << <<"-", "v">> >>,
       << <<"-", "V">> >>,
       << <<"-", "-", "v", "e", "r", "s", "i", "o", "n", "-", "s", "h", "o", "r", "t">> >> >>

commonVersionArgs ==
    << << <<"-", "-", "v", "e", "r", "s", "i", "o", "n">> >>,
       << ArgVersion >>,
       << <<"-", "v">> >>,
       << <<"-", "V">> >>,
       << <<"-", "-", "v", "e", "r", "s", "i", "o", "n", "-", "s", "h", "o", "r", "t">> >>,
       << <<"-", "v", "e", "r", "s", "i", "o", "n">> >> >>

\* every argument list the command can be started with
ArgLists ==
    {commonVersionArgs[i] : i \in 1..Len(commonVersionArgs)}
        \cup {Fields(a) : a \in VersionArgs}

\* &Result{Tool: tool}
NewResult(t) ==
    [Tool |-> t, Status |-> "", InstalledVersion |-> <<>>, Path |-> <<>>,
     Output |-> <<>>, Error |-> NoError]

\* mutant: every failure is downgraded
failStatus_downgradeAll(t) == StatusOptionalMissing

\* mutant: optional is ignored
failStatus_required(t) == StatusFail

\* result.Status = StatusFail; if tool.Optional { result.Status = StatusOptionalMissing }
failStatus(t) == IF t.Optional THEN StatusOptionalMissing ELSE StatusFail

\* mutant: a failure of a later stage is downgraded like a missing tool
stageFailStatus_downgraded(t) == IF t.Optional THEN StatusOptionalMissing ELSE StatusFail

\* result.Status = StatusFail, with no regard to tool.Optional: the status of
\* a failed extraction, constraint parse or version parse
stageFailStatus(t) == StatusFail

\* runCommand's return values from what cmd.Run produced
runCommand(run) ==
    IF run.err # NoError
    THEN IF run.out # <<>> THEN [output |-> run.out, err |-> run.err]
         ELSE [output |-> <<>>, err |-> run.err]
    ELSE [output |-> run.out, err |-> NoError]

\* executeVersionCommand with tool.VersionArg set: its return values
explicitProbe(t, r) ==
    IF r.err # NoError
    THEN [output |-> <<>>, err |-> <<t.CLI, ": ">> \o r.err]
    ELSE [output |-> r.output, err |-> NoError]

\* mutant: the heuristic is not consulted, any text is accepted
guessAccepts_anyText(output) == output # <<>>

\* the accept condition of the smart-guess loop
guessAccepts(output) == output # <<>> /\ looksLikeVersionOutput(output)

----------------------------------------------------------------------------
(* Check, checkExistence, checkVersion and executeVersionCommand as a      *)
(* state machine.                                                          *)

\* the context is not done and the command resolves: a process can start
Spawnable == onPath /\ elapsed < Timeout

\* the behaviours the command may show for args: none is observed when no
\* process starts, and an argument list seen before behaves as before
Choices(args) ==
    IF ~Spawnable THEN {NoBehaviour}
    ELSE IF env[args] # NoBehaviour THEN {env[args]}
    ELSE Behaviours

\* the history record of one runCommand call
CallRecord(args, b, run, r) ==
    [args |-> args, beh |-> b, started |-> run.started, killed |-> run.killed,
     at |-> elapsed, output |-> r.output, err |-> r.err]

\* Check with tool.Version == "": checkExistence
CheckExistence ==
    /\ pc = "start"
    /\ tool.Version = ""
    /\ result' = IF onPath
                 THEN [result EXCEPT !.Status = StatusPass,
                                     !.Path = <<"/usr/bin/", tool.CLI>>]
                 ELSE [result EXCEPT !.Status = failStatus(tool),
                                     !.Error = <<tool.CLI, ": command not found">>]
    /\ stages' = Append(stages, "existence")
    /\ pc' = "done"
    /\ UNCHANGED <<tool, onPath, env, idx, elapsed, calls, versionOutput, text, pat, ret,
                   allVars, cfgVars, runVars>>

\* Check with a version: checkVersion enters executeVersionCommand, which
\* creates the context shared by every attempt
BeginVersion ==
    /\ pc = "start"
    /\ tool.Version # ""
    /\ elapsed' = 0
    /\ idx' = 1
    /\ stages' = Append(stages, "probe")
    /\ pc' = IF tool.VersionArg # <<>> THEN "explicit" ELSE "guess"
    /\ UNCHANGED <<tool, onPath, env, calls, versionOutput, result, text, pat, ret,
                   allVars, cfgVars, runVars>>

\* mutant: a failed explicit probe falls back to the smart-guess sequence
ProbeExplicit_fallback ==
    /\ pc = "explicit"
    /\ LET args == Fields(tool.VersionArg) IN
       \E b \in Choices(args) :
          LET run == cmdRun(onPath, b, elapsed)
              r == runCommand(run)
              p == explicitProbe(tool, r)
          IN  /\ env' = [env EXCEPT ![args] = b]
              /\ calls' = Append(calls, CallRecord(args, b, run, r))
              /\ elapsed' = run.elapsed
              /\ IF p.err # NoError
                 THEN /\ result' = result
                      /\ versionOutput' = versionOutput
                      /\ pc' = "guess"
                 ELSE /\ result' = [result EXCEPT !.Output = p.output]
                      /\ versionOutput' = p.output
                      /\ pc' = "extract"
    /\ UNCHANGED <<tool, onPath, idx, stages, text, pat, ret, allVars, cfgVars, runVars>>

\* executeVersionCommand with tool.VersionArg set, and checkVersion's
\* handling of what it returns
ProbeExplicit ==
    /\ pc = "explicit"
    /\ LET args == Fields(tool.VersionArg) IN
       \E b \in Choices(args) :
          LET run == cmdRun(onPath, b, elapsed)
              r == runCommand(run)
              p == explicitProbe(tool, r)
          IN  /\ env' = [env EXCEPT ![args] = b]
              /\ calls' = Append(calls, CallRecord(args, b, run, r))
              /\ elapsed' = run.elapsed
              /\ IF p.err # NoError
                 THEN /\ result' = [result EXCEPT !.Status = failStatus(tool),
                                                  !.Error = p.err]
                      /\ versionOutput' = versionOutput
                      /\ pc' = "done"
                 ELSE /\ result' = [result EXCEPT !.Output = p.output]
                      /\ versionOutput' = p.output
                      /\ pc' = "extract"
    /\ UNCHANGED <<tool, onPath, idx, stages, text, pat, ret, allVars, cfgVars, runVars>>

\* one iteration of the smart-guess loop
ProbeGuess ==
    /\ pc = "guess"
    /\ idx <= Len(commonVersionArgs)
    /\ LET args == commonVersionArgs[idx] IN
       \E b \in Choices(args) :
          LET run == cmdRun(onPath, b, elapsed)
              r == runCommand(run)
          IN  /\ env' = [env EXCEPT ![args] = b]
              /\ calls' = Append(calls, CallRecord(args, b, run, r))
              /\ elapsed' = run.elapsed
              /\ IF guessAccepts(r.output)
                 THEN /\ result' = [result EXCEPT !.Output = r.output]
                      /\ versionOutput' = r.output
                      /\ idx' = idx
                      /\ pc' = "extract"
                 ELSE /\ idx' = idx + 1
                      /\ UNCHANGED <<result, versionOutput, pc>>
    /\ UNCHANGED <<tool, onPath, stages, text, pat, ret, allVars, cfgVars, runVars>>

\* the smart-guess loop ran out of argument sets
ProbeExhausted ==
    /\ pc = "guess"
    /\ idx > Len(commonVersionArgs)
    /\ result' = [result EXCEPT !.Status = failStatus(tool),
                                !.Error = <<tool.CLI, ": failed to get version">>]
    /\ pc' = "done"
    /\ UNCHANGED <<tool, onPath, env, idx, elapsed, calls, versionOutput, stages,
                   text, pat, ret, allVars, cfgVars, runVars>>

\* mutant: the extracted version is used but not recorded in the result
ExtractStage_unrecorded ==
    /\ pc = "extract"
    /\ LET x == extractVersion(versionOutput, tool.VersionPattern) IN
       IF x.err # NoError
       THEN /\ result' = [result EXCEPT !.Status = stageFailStatus(tool),
                                        !.Error = <<"failed to extract version: ">> \o x.err]
            /\ pc' = "done"
       ELSE /\ result' = result
            /\ pc' = "constraint"
    /\ stages' = Append(stages, "extract")
    /\ UNCHANGED <<tool, onPath, env, idx, elapsed, calls, versionOutput, text, pat, ret,
                   allVars, cfgVars, runVars>>

\* checkVersion: extract the version from the probe's text
ExtractStage ==
    /\ pc = "extract"
    /\ LET x == extractVersion(versionOutput, tool.VersionPattern) IN
       IF x.err # NoError
       THEN /\ result' = [result EXCEPT !.Status = stageFailStatus(tool),
                                        !.Error = <<"failed to extract version: ">> \o x.err]
            /\ pc' = "done"
       ELSE /\ result' = [result EXCEPT !.InstalledVersion = x.version]
            /\ pc' = "constraint"
    /\ stages' = Append(stages, "extract")
    /\ UNCHANGED <<tool, onPath, env, idx, elapsed, calls, versionOutput, text, pat, ret,
                   allVars, cfgVars, runVars>>

\* mutant: the installed version is parsed before the constraint
ConstraintStage_versionFirst ==
    /\ pc = "constraint"
    /\ IF ~NewVersion(result.InstalledVersion).ok
       THEN /\ result' = [result EXCEPT
                            !.Status = stageFailStatus(tool),
                            !.Error = <<"failed to parse installed version '",
                                        result.InstalledVersion, "': ",
                                        "Invalid Semantic Version">>]
            /\ pc' = "done"
       ELSE IF ~NewConstraint(tool.Version).ok
       THEN /\ result' = [result EXCEPT
                            !.Status = stageFailStatus(tool),
                            !.Error = <<"invalid version constraint '", tool.Version,
                                        "': ", "improper constraint">>]
            /\ pc' = "done"
       ELSE /\ result' = result
            /\ pc' = "version"
    /\ stages' = Append(stages, "constraint")
    /\ UNCHANGED <<tool, onPath, env, idx, elapsed, calls, versionOutput, text, pat, ret,
                   allVars, cfgVars, runVars>>

\* checkVersion: parse the constraint
ConstraintStage ==
    /\ pc = "constraint"
    /\ IF ~NewConstraint(tool.Version).ok
       THEN /\ result' = [result EXCEPT
                            !.Status = stageFailStatus(tool),
                            !.Error = <<"invalid version constraint '", tool.Version,
                                        "': ", "improper constraint">>]
            /\ pc' = "done"
       ELSE /\ result' = result
            /\ pc' = "version"
    /\ stages' = Append(stages, "constraint")
    /\ UNCHANGED <<tool, onPath, env, idx, elapsed, calls, versionOutput, text, pat, ret,
                   allVars, cfgVars, runVars>>

\* checkVersion: parse the installed version
VersionStage ==
    /\ pc = "version"
    /\ IF ~NewVersion(result.InstalledVersion).ok
       THEN /\ result' = [result EXCEPT
                            !.Status = stageFailStatus(tool),
                            !.Error = <<"failed to parse installed version '",
                                        result.InstalledVersion, "': ",
                                        "Invalid Semantic Version">>]
            /\ pc' = "done"
       ELSE /\ result' = result
            /\ pc' = "compare"
    /\ stages' = Append(stages, "version")
    /\ UNCHANGED <<tool, onPath, env, idx, elapsed, calls, versionOutput, text, pat, ret,
                   allVars, cfgVars, runVars>>

\* mutant: the outcome of the comparison is not consulted
compareStatus_always(t, satisfied) == StatusPass

\* the status checkVersion sets after constraint.Check
compareStatus(t, satisfied) == IF satisfied THEN StatusPass ELSE failStatus(t)

\* checkVersion: compare
CompareStage ==
    /\ pc = "compare"
    /\ result' = [result EXCEPT !.Status =
                    compareStatus(tool, constraintCheck(NewConstraint(tool.Version),
                                            NewVersion(result.InstalledVersion).ver))]
    /\ stages' = Append(stages, "compare")
    /\ pc' = "done"
    /\ UNCHANGED <<tool, onPath, env, idx, elapsed, calls, versionOutput, text, pat, ret,
                   allVars, cfgVars, runVars>>

\* nothing written, nothing returned
NoConsole ==
    [stdout |-> <<>>, stderr |-> <<>>, err |-> NoError, exited |-> FALSE,
     format |-> ""]

\* runCheck is not running
NoRun == console = NoConsole

\* CheckAll is not running
NoCheckAll ==
    /\ tools = <<>>
    /\ filter = <<>>
    /\ order = <<>>
    /\ pos = 0
    /\ results = <<>>
    /\ world = <<>>
    /\ checked = <<>>

\* LoadAndMerge is not running
NoLoad == fs = <<>>

Init ==
    /\ NoRun
    /\ tool \in Tools
    /\ onPath \in BOOLEAN
    /\ env = [a \in ArgLists |-> NoBehaviour]
    /\ pc = "start"
    /\ idx = 0
    /\ elapsed = 0
    /\ calls = <<>>
    /\ versionOutput = <<>>
    /\ result = NewResult(tool)
    /\ stages = <<>>
    /\ text = <<>>
    /\ pat = ""
    /\ ret = FALSE
    /\ NoCheckAll
    /\ NoLoad

Next ==
    \/ CheckExistence
    \/ BeginVersion
    \/ ProbeExplicit
    \/ ProbeGuess
    \/ ProbeExhausted
    \/ ExtractStage
    \/ ConstraintStage
    \/ VersionStage
    \/ CompareStage

Spec == Init /\ [][Next]_vars

\* the positions of Check
CheckPcs ==
    {"start", "explicit", "guess", "extract", "constraint", "version", "compare", "done"}

\* Check has not returned and moves on: every step of Check changes its
\* position or the index of the smart-guess loop
Running ==
    /\ pc # "done"
    /\ pc' \in CheckPcs
    /\ idx' \in 0..(Len(commonVersionArgs) + 1)

\* Check is one sequential call, every subprocess being bounded by the
\* context's deadline: while it has not returned, its next step is taken
SpecFair == Spec /\ WF_<<pc, idx>>(Running)

----------------------------------------------------------------------------
(* Calls of the pure functions on bounded inputs.                          *)

\* the zero value config.Tool{}
NoTool ==
    [Name |-> "", CLI |-> "", Version |-> "", VersionArg |-> <<>>,
     VersionPattern |-> "", Optional |-> FALSE]

\* no check is running
NoCheck ==
    /\ tool = NoTool
    /\ onPath = FALSE
    /\ env = [a \in ArgLists |-> NoBehaviour]
    /\ idx = 0
    /\ elapsed = 0
    /\ calls = <<>>
    /\ versionOutput = <<>>
    /\ result = NewResult(NoTool)
    /\ stages = <<>>

RECURSIVE Flatten(_)
\* the concatenation of a sequence of strings
Flatten(ss) == IF ss = <<>> THEN <<>> ELSE Head(ss) \o Flatten(Tail(ss))

\* the texts made of at most n of the fragments F
TextsOf(F, n) == {Flatten(ss) : ss \in UNION {[1..k -> F] : k \in 0..n}}

MaxFrags == 3
MaxPadFrags == 1

LooksFrags ==
    { <<"1">>, <<".">>, <<"1", ".">>, <<" ">>, <<"\n">>, <<"a">>, <<"U+00E9">>,
      <<"H">>, <<"e", "l", "p">> }
        \cup {rejectPatterns[k] : k \in 1..Len(rejectPatterns)}

\* paddings that bring a first line to the length gate
LooksPads ==
    { Repeat("a", MaxFirstLineLen - 2), Repeat("a", MaxFirstLineLen - 1),
      Repeat(" ", MaxFirstLineLen - 1), <<" ">> \o Repeat("a", MaxFirstLineLen - 2),
      Repeat("U+00E9", (MaxFirstLineLen \div 2) - 1),
      Repeat("U+00E9", MaxFirstLineLen \div 2) }

LooksInputs ==
    TextsOf(LooksFrags, MaxFrags)
        \cup {p \o t : p \in LooksPads, t \in TextsOf(LooksFrags, MaxPadFrags)}

InitLooks ==
    /\ NoRun
    /\ NoCheck
    /\ text \in LooksInputs
    /\ pat = ""
    /\ ret = FALSE
    /\ pc = "looks_call"
    /\ NoCheckAll
    /\ NoLoad

\* a call of looksLikeVersionOutput(text)
CallLooks ==
    /\ pc = "looks_call"
    /\ ret' = looksLikeVersionOutput(text)
    /\ pc' = "looks_ret"
    /\ UNCHANGED <<tool, onPath, env, idx, elapsed, calls, versionOutput, result,
                   stages, text, pat, allVars, cfgVars, runVars>>

NextLooks == CallLooks

SpecLooks == InitLooks /\ [][NextLooks]_vars

MaxChars == 5

ExtractChars == {"1", ".", "v", "\n", " "}

ExtractInputs == UNION {[1..k -> ExtractChars] : k \in 0..MaxChars}

ExtractPatterns == {"", PatGroup, PatPlain, PatOptGroup, PatAnchored, PatInvalid}

InitExtract ==
    /\ NoRun
    /\ NoCheck
    /\ text \in ExtractInputs
    /\ pat \in ExtractPatterns
    /\ ret = [version |-> <<>>, err |-> NoError]
    /\ pc = "extract_call"
    /\ NoCheckAll
    /\ NoLoad

\* a call of extractVersion(text, pat)
CallExtract ==
    /\ pc = "extract_call"
    /\ ret' = extractVersion(text, pat)
    /\ pc' = "extract_ret"
    /\ UNCHANGED <<tool, onPath, env, idx, elapsed, calls, versionOutput, result,
                   stages, text, pat, allVars, cfgVars, runVars>>

NextExtract == CallExtract

SpecExtract == InitExtract /\ [][NextExtract]_vars

----------------------------------------------------------------------------
(* CheckAll: the loop over the requested keys, or over the whole map; each *)
(* Check it calls runs as the state machine above.                         *)

\* mutant: a requested key that the map does not hold is treated as optional
notFoundResult_optional(name) ==
    [NewResult([NoTool EXCEPT !.Name = name, !.CLI = name, !.Optional = TRUE]) EXCEPT
        !.Status = StatusOptionalMissing,
        !.Error = <<name, ": command not found">>]

\* the Result appended for a requested key that the map does not hold
notFoundResult(name) ==
    [NewResult([NoTool EXCEPT !.Name = name, !.CLI = name]) EXCEPT
        !.Status = StatusFail,
        !.Error = <<"tool '", name, "' not found in configuration">>]

\* mutant: range may stop before it has visited every key
rangeOrders_partial(m) ==
    {o \in UNION {[1..n -> DOMAIN m] : n \in 0..Cardinality(DOMAIN m)} :
        \A i, j \in DOMAIN o : i # j => o[i] # o[j]}

\* the orders in which range may visit the keys of the map m
rangeOrders(m) ==
    {o \in [1..Cardinality(DOMAIN m) -> DOMAIN m] :
        \A i, j \in 1..Cardinality(DOMAIN m) : i # j => o[i] # o[j]}

\* mutant: the requested keys are visited once each, in the order of the map
loopOrders_asSet(m, f) ==
    IF Len(f) > 0
    THEN rangeOrders([k \in {f[i] : i \in 1..Len(f)} |-> k])
    ELSE rangeOrders(m)

\* the loop CheckAll runs: over filter when it has entries, else over the map
loopOrders(m, f) == IF Len(f) > 0 THEN {f} ELSE rangeOrders(m)

\* CheckAll is entered
AllEnter ==
    /\ pc = "all_entry"
    /\ order' \in loopOrders(tools, filter)
    /\ pos' = 1
    /\ results' = <<>>
    /\ pc' = "all_loop"
    /\ UNCHANGED <<tool, onPath, env, idx, elapsed, calls, versionOutput, result,
                   stages, text, pat, ret, tools, filter, world, checked, cfgVars, runVars>>

\* the filter loop meets a key that the map does not hold
FilterMissing ==
    /\ pc = "all_loop"
    /\ pos <= Len(order)
    /\ order[pos] \notin DOMAIN tools
    /\ results' = Append(results, notFoundResult(order[pos]))
    /\ pos' = pos + 1
    /\ UNCHANGED <<tool, onPath, env, pc, idx, elapsed, calls, versionOutput, result,
                   stages, text, pat, ret, tools, filter, order, world, checked,
                   cfgVars, runVars>>

\* mutant: every Check writes into the Result of the Check before it
CallCheck_sharedResult ==
    /\ pc = "all_loop"
    /\ pos <= Len(order)
    /\ order[pos] \in DOMAIN tools
    /\ tool' = tools[order[pos]]
    /\ result' = [result EXCEPT !.Tool = tools[order[pos]]]
    /\ onPath' = world[tools[order[pos]].CLI].found
    /\ env' = world[tools[order[pos]].CLI].env
    /\ idx' = 0
    /\ elapsed' = 0
    /\ calls' = <<>>
    /\ versionOutput' = <<>>
    /\ stages' = <<>>
    /\ checked' = Append(checked, tools[order[pos]])
    /\ pc' = "start"
    /\ UNCHANGED <<text, pat, ret, tools, filter, order, pos, results, world, cfgVars, runVars>>

\* either loop calls Check(tool) for the key it is at
CallCheck ==
    /\ pc = "all_loop"
    /\ pos <= Len(order)
    /\ order[pos] \in DOMAIN tools
    /\ tool' = tools[order[pos]]
    /\ result' = NewResult(tools[order[pos]])
    /\ onPath' = world[tools[order[pos]].CLI].found
    /\ env' = world[tools[order[pos]].CLI].env
    /\ idx' = 0
    /\ elapsed' = 0
    /\ calls' = <<>>
    /\ versionOutput' = <<>>
    /\ stages' = <<>>
    /\ checked' = Append(checked, tools[order[pos]])
    /\ pc' = "start"
    /\ UNCHANGED <<text, pat, ret, tools, filter, order, pos, results, world, cfgVars, runVars>>

\* mutant: a check that passed after probing stores a probe argument in the
\* descriptor, which the map shares
Collect_memoArg ==
    /\ pc = "done"
    /\ results' = Append(results, result)
    /\ pos' = pos + 1
    /\ pc' = "all_loop"
    /\ tools' = [tools EXCEPT ![order[pos]].VersionArg =
                    IF calls # <<>> /\ result.Status = StatusPass THEN ArgVersion ELSE @]
    /\ UNCHANGED <<tool, onPath, env, idx, elapsed, calls, versionOutput, result,
                   stages, text, pat, ret, filter, order, world, checked, cfgVars, runVars>>

\* Check has returned: its result is appended and the loop moves on
Collect ==
    /\ pc = "done"
    /\ results' = Append(results, result)
    /\ pos' = pos + 1
    /\ pc' = "all_loop"
    /\ UNCHANGED <<tool, onPath, env, idx, elapsed, calls, versionOutput, result,
                   stages, text, pat, ret, tools, filter, order, world, checked,
                   cfgVars, runVars>>

\* the loop is over: CheckAll returns results
AllReturn ==
    /\ pc = "all_loop"
    /\ pos > Len(order)
    /\ pc' = "all_done"
    /\ UNCHANGED <<tool, onPath, env, idx, elapsed, calls, versionOutput, result,
                   stages, text, pat, ret, allVars, cfgVars, runVars>>

MaxFilter == 3

\* the keys that can be requested, and those the map can hold
AllKeys == {"go", "node", "rust"}
MapKeys == {"go", "node"}

\* the descriptors the map can hold for a key
ToolsFor(k) ==
    IF k = "go"
    THEN { [Name |-> "go", CLI |-> "go", Version |-> ConstraintGe120,
            VersionArg |-> <<>>, VersionPattern |-> "", Optional |-> FALSE],
           [Name |-> "go", CLI |-> "go", Version |-> ConstraintGe120,
            VersionArg |-> ArgVersion, VersionPattern |-> "", Optional |-> TRUE],
           [Name |-> "go", CLI |-> "go", Version |-> "",
            VersionArg |-> <<>>, VersionPattern |-> "", Optional |-> FALSE] }
    ELSE { [Name |-> k, CLI |-> k, Version |-> "",
            VersionArg |-> <<>>, VersionPattern |-> "", Optional |-> TRUE] }

AllMaps ==
    UNION {{m \in [D -> UNION {ToolsFor(k) : k \in D}] : \A k \in D : m[k] \in ToolsFor(k)}
              : D \in SUBSET MapKeys}

AllFilters == UNION {[1..n -> AllKeys] : n \in 0..MaxFilter}

\* an environment in which every argument list behaves like b
EnvOf(b) == [a \in ArgLists |-> b]

\* environments in which the behaviour of every argument list is settled
AllEnvs ==
    { EnvOf([out |-> OutVersion, exitOK |-> TRUE, dur |-> 0]),
      EnvOf([out |-> OutOld, exitOK |-> FALSE, dur |-> 0]),
      EnvOf([out |-> <<>>, exitOK |-> FALSE, dur |-> 2]),
      [a \in ArgLists |-> IF a = commonVersionArgs[1]
                          THEN [out |-> OutHelp, exitOK |-> FALSE, dur |-> 0]
                          ELSE [out |-> OutVersion, exitOK |-> TRUE, dur |-> 0]] }

\* per command: does it resolve, and how does it behave
Worlds ==
    {[k \in MapKeys |-> IF k = "go" THEN g
                        ELSE [found |-> n,
                              env |-> EnvOf([out |-> OutVersion, exitOK |-> TRUE, dur |-> 0])]]
        : g \in [found : BOOLEAN, env : AllEnvs], n \in BOOLEAN}

InitAll ==
    /\ NoRun
    /\ NoCheck
    /\ text = <<>>
    /\ pat = ""
    /\ ret = FALSE
    /\ tools \in AllMaps
    /\ filter \in AllFilters
    /\ world \in Worlds
    /\ order = <<>>
    /\ pos = 0
    /\ results = <<>>
    /\ checked = <<>>
    /\ NoLoad
    /\ pc = "all_entry"

NextAll ==
    \/ AllEnter
    \/ FilterMissing
    \/ CallCheck
    \/ Collect
    \/ AllReturn
    \/ Next

SpecAll == InitAll /\ [][NextAll]_vars

----------------------------------------------------------------------------
(* output.ShouldExitWithError on bounded result sets.                      *)

RECURSIVE ShouldExitWithError_notPass(_)
\* mutant: every outcome that is not Pass makes the run unsuccessful
ShouldExitWithError_notPass(rs) ==
    IF rs = <<>> THEN FALSE
    ELSE IF Head(rs).Status # StatusPass THEN TRUE
    ELSE ShouldExitWithError_notPass(Tail(rs))

RECURSIVE ShouldExitWithError(_)
\* ShouldExitWithError(results): the loop returns at the first Fail
ShouldExitWithError(rs) ==
    IF rs = <<>> THEN FALSE
    ELSE IF Head(rs).Status = StatusFail THEN TRUE
    ELSE ShouldExitWithError(Tail(rs))

MaxResults == 4

\* a result with the given status
ResultWith(st) == [NewResult(NoTool) EXCEPT !.Status = st]

ExitInputs ==
    UNION {[1..n -> {ResultWith(st) : st \in {StatusPass, StatusFail,
                                              StatusOptionalMissing}}]
              : n \in 0..MaxResults}

InitExit ==
    /\ NoRun
    /\ NoCheck
    /\ text = <<>>
    /\ pat = ""
    /\ ret = FALSE
    /\ tools = <<>>
    /\ filter = <<>>
    /\ order = <<>>
    /\ pos = 0
    /\ results \in ExitInputs
    /\ world = <<>>
    /\ checked = <<>>
    /\ NoLoad
    /\ pc = "exit_call"

\* a call of ShouldExitWithError(results)
CallExit ==
    /\ pc = "exit_call"
    /\ ret' = ShouldExitWithError(results)
    /\ pc' = "exit_ret"
    /\ UNCHANGED <<tool, onPath, env, idx, elapsed, calls, versionOutput, result,
                   stages, text, pat, allVars, cfgVars, runVars>>

NextExit == CallExit

SpecExit == InitExit /\ [][NextExit]_vars

----------------------------------------------------------------------------
(* runCheck of the chex command: load, CheckAll, report.                   *)

FormatPretty == "pretty"
FormatQuiet == "quiet"
FormatJSON == "json"

\* runCheck's choice of the format from the --quiet and --output flags
outFormat(quiet, outputFormat) ==
    IF quiet THEN FormatQuiet
    ELSE IF outputFormat = "json" THEN FormatJSON
    ELSE IF outputFormat = "quiet" THEN FormatQuiet
    ELSE FormatPretty

\* what is written for one result; name and status stand for its lines
entry(r) == [Name |-> r.Tool.Name, Status |-> r.Status]

\* printPretty(results): every result is written
printPretty(rs) == [i \in 1..Len(rs) |-> entry(rs[i])]

\* printJSON(results): every result is written
printJSON(rs) == [i \in 1..Len(rs) |-> entry(rs[i])]

\* printQuiet's loop goes on to the next result
quietSkips(r) == r.Status = StatusPass

RECURSIVE printQuiet(_)
\* printQuiet(results): the results that passed are left out
printQuiet(rs) ==
    IF rs = <<>> THEN <<>>
    ELSE IF quietSkips(Head(rs)) THEN printQuiet(Tail(rs))
    ELSE <<entry(Head(rs))>> \o printQuiet(Tail(rs))

\* output.Print(results, format)
outputPrint(rs, format) ==
    IF format = FormatJSON THEN printJSON(rs)
    ELSE IF format = FormatQuiet THEN printQuiet(rs)
    ELSE printPretty(rs)

\* the test that runCheck's loop applies to a result
isNotFound(r) ==
    r.Error # NoError
        /\ r.Error = <<"tool '", r.Tool.Name, "' not found in configuration">>

\* the index of the first result that passes the test, 0 when there is none
firstNotFound(rs) ==
    LET hits == {i \in 1..Len(rs) : isNotFound(rs[i])} IN
    IF hits = {} THEN 0 ELSE CHOOSE i \in hits : \A j \in hits : i <= j

\* what runCheck writes and returns for an unknown requested name; names is
\* the order in which range yields the keys of loadResult.Tools
invalidToolReport(con, name, names) ==
    [con EXCEPT !.stderr = @ \o << <<"Error: tool '", name, "' not found in configuration">>,
                                  <<>>, <<"Available tools:">> >>
                             \o [i \in 1..Len(names) |-> <<"  - ", names[i]>>],
                !.err = <<"invalid tool name">>]

\* what runCheck writes and whether it exits when every name was known
resultsReport(con, rs, format) ==
    [con EXCEPT !.format = format,
                !.stdout = outputPrint(rs, format),
                !.exited = ShouldExitWithError(rs)]

\* the warnings on stderr, followed by an empty line when there are any
shownWarnings(ws) == IF Len(ws) > 0 THEN ws \o << <<>> >> ELSE <<>>

\* what config.LoadAndMerge can hand to runCheck besides the tools
LoadOutcomes ==
    { [Warnings |-> <<>>, err |-> NoError],
      [Warnings |-> << <<"Error: Unknown tool '", "baz", "' in ", "mise.toml">> >>,
       err |-> NoError],
      [Warnings |-> <<>>,
       err |-> <<"failed to read config file: ", "no such file or directory">>] }

\* the values of the --output flag
OutputFlags == {"pretty", "quiet", "json", "yaml"}

\* runCheck up to the call of CheckAll; tools is loadResult.Tools
RunLoad ==
    /\ pc = "run_call"
    /\ \E lr \in LoadOutcomes :
          IF lr.err # NoError
          THEN /\ console' = [console EXCEPT
                                !.err = <<"failed to load configuration: ">> \o lr.err]
               /\ pc' = "run_done"
          ELSE IF DOMAIN tools = {}
          THEN /\ console' = [console EXCEPT
                                !.stderr = shownWarnings(lr.Warnings),
                                !.err = <<"no tools defined in configuration">>]
               /\ pc' = "run_done"
          ELSE /\ console' = [console EXCEPT !.stderr = shownWarnings(lr.Warnings)]
               /\ pc' = "all_entry"
    /\ UNCHANGED <<tool, onPath, env, idx, elapsed, calls, versionOutput, result,
                   stages, text, pat, ret, allVars, cfgVars>>

\* mutant: the results are printed before the requested names are looked at
RunReport_printFirst ==
    /\ pc = "all_done"
    /\ IF Len(filter) > 0 /\ firstNotFound(results) > 0
       THEN \E names \in rangeOrders(tools) :
               console' = invalidToolReport(
                              [console EXCEPT !.stdout = printPretty(results)],
                              results[firstNotFound(results)].Tool.Name, names)
       ELSE \E quiet \in BOOLEAN, outputFormat \in OutputFlags :
               console' = resultsReport(console, results, outFormat(quiet, outputFormat))
    /\ pc' = "run_done"
    /\ UNCHANGED <<tool, onPath, env, idx, elapsed, calls, versionOutput, result,
                   stages, text, pat, ret, allVars, cfgVars>>

\* runCheck from the return of CheckAll on
RunReport ==
    /\ pc = "all_done"
    /\ IF Len(filter) > 0 /\ firstNotFound(results) > 0
       THEN \E names \in rangeOrders(tools) :
               console' = invalidToolReport(
                              console, results[firstNotFound(results)].Tool.Name, names)
       ELSE \E quiet \in BOOLEAN, outputFormat \in OutputFlags :
               console' = resultsReport(console, results, outFormat(quiet, outputFormat))
    /\ pc' = "run_done"
    /\ UNCHANGED <<tool, onPath, env, idx, elapsed, calls, versionOutput, result,
                   stages, text, pat, ret, allVars, cfgVars>>

MaxArgs == 2

\* the command lines of a run: at most MaxArgs requested names
RunArgs == UNION {[1..n -> AllKeys] : n \in 0..MaxArgs}

InitRun ==
    /\ NoRun
    /\ NoCheck
    /\ text = <<>>
    /\ pat = ""
    /\ ret = FALSE
    /\ tools \in AllMaps
    /\ filter \in RunArgs
    /\ world \in Worlds
    /\ order = <<>>
    /\ pos = 0
    /\ results = <<>>
    /\ checked = <<>>
    /\ NoLoad
    /\ pc = "run_call"

NextRun ==
    \/ RunLoad
    \/ RunReport
    \/ NextAll

SpecRun == InitRun /\ [][NextRun]_vars

----------------------------------------------------------------------------
(* internal/config: Load and LoadAndMerge over the files of the root       *)
(* directory.  File names, tool names and versions are TLA+ strings; a     *)
(* Tool's Source and a warning are sequences of message parts.  A TOML     *)
(* key of the [chex] table holds "true", "false" or is "unset".            *)

knownToolMappings ==
    [n \in {"nodejs", "golang", "awscli", "golangci-lint", "just", "pnpm", "tilt",
            "python", "poetry", "helm", "kustomize", "mockery", "kubeconform"} |->
        CASE n = "nodejs" -> [CLI |-> "node", VersionArg |-> "--version"]
          [] n = "golang" -> [CLI |-> "go", VersionArg |-> "version"]
          [] n = "awscli" -> [CLI |-> "aws", VersionArg |-> "--version"]
          [] n \in {"just", "pnpm", "python", "poetry"} ->
                [CLI |-> n, VersionArg |-> "--version"]
          [] OTHER -> [CLI |-> n, VersionArg |-> "version"]]

\* resolveToolMapping(name): (cli, versionArg, known)
resolveToolMapping(name) ==
    IF name \in DOMAIN knownToolMappings
    THEN [cli |-> knownToolMappings[name].CLI,
          versionArg |-> knownToolMappings[name].VersionArg, known |-> TRUE]
    ELSE [cli |-> name, versionArg |-> "", known |-> FALSE]

\* formatUnknownToolWarning(name, source)
formatUnknownToolWarning(name, source) ==
    <<"Warning: Unknown tool '", name, "' from ", source, ". Using '", name,
      "' as CLI command. If this is incorrect, define it explicitly in .chex.toml">>

\* toml.Unmarshal of a boolean key into a field whose zero value is false
decodeBool(v) == v = "true"

\* decodeInto(value, &chexCfg): keys that are not set keep the zero value
decodeChexConfig(raw) ==
    [present |-> raw.present,
     Sources |-> IF raw.sources.set THEN raw.sources.list ELSE <<>>,
     FailOnUnknownTools |-> decodeBool(raw.fail_on_unknown_tools),
     SkipUnknownTools |-> decodeBool(raw.skip_unknown_tools),
     WarnOnUnknownTools |-> decodeBool(raw.warn_on_unknown_tools)]

\* Load(path): the Config of a file that exists; Chex.present is Chex != nil
Load(file) == [Chex |-> decodeChexConfig(file.chex), Tools |-> file.tools]

\* configToTool(name, cfg, source)
configToTool(name, c, source) ==
    [Name |-> IF c.Name # "" THEN c.Name ELSE name,
     CLI |-> c.CLI,
     Version |-> c.Version,
     VersionArg |-> c.VersionArg,
     VersionPattern |-> c.VersionPattern,
     Optional |-> c.Optional,
     Message |-> c.Message,
     Source |-> source]

\* the Tool that loadMiseSource and loadToolVersionsSource build
externalTool(name, version, mp, source) ==
    [Name |-> name, CLI |-> mp.cli, Version |-> version, VersionArg |-> mp.versionArg,
     VersionPattern |-> "", Optional |-> FALSE, Message |-> "", Source |-> source]

\* mutant: a name that the map already holds is loaded again
exists_never(tls, name) == FALSE

\* _, exists := tools[name]
exists(tls, name) == name \in DOMAIN tls

\* the map tls with tools[name] = tool executed
withTool(tls, name, tl) == [n \in DOMAIN tls \cup {name} |-> IF n = name THEN tl ELSE tls[n]]

\* mutant: failOnUnknown is consulted before skipUnknown
addResolved_failFirst(acc, name, version, mp, fl, label, source) ==
    IF ~mp.known /\ fl.fail
    THEN [acc EXCEPT !.Warnings =
              Append(@, <<"Error: Unknown tool '", name, "' in ", label>>)]
    ELSE IF ~mp.known /\ fl.skip THEN acc
    ELSE [Tools |-> withTool(acc.Tools, name, externalTool(name, version, mp, source)),
          Warnings |-> IF ~mp.known /\ fl.warn
                       THEN Append(acc.Warnings, formatUnknownToolWarning(name, label))
                       ELSE acc.Warnings]

\* the body of the loops of loadMiseSource and loadToolVersionsSource from
\* the mapping mp of the name on; label is the file's name in the messages
addResolved(acc, name, version, mp, fl, label, source) ==
    IF ~mp.known /\ fl.skip THEN acc
    ELSE IF ~mp.known /\ fl.fail
    THEN [acc EXCEPT !.Warnings =
              Append(@, <<"Error: Unknown tool '", name, "' in ", label>>)]
    ELSE [Tools |-> withTool(acc.Tools, name, externalTool(name, version, mp, source)),
          Warnings |-> IF ~mp.known /\ fl.warn
                       THEN Append(acc.Warnings, formatUnknownToolWarning(name, label))
                       ELSE acc.Warnings]

\* the body of the loops of loadMiseSource and loadToolVersionsSource
addExternal(acc, name, version, fl, label, source) ==
    IF exists(acc.Tools, name) THEN acc
    ELSE addResolved(acc, name, version, resolveToolMapping(name), fl, label, source)

\* extractMiseVersion(value)
extractMiseVersion(value) ==
    IF value.kind = "string" THEN value.str
    ELSE IF value.kind = "table" /\ value.hasVersion THEN value.version
    ELSE ""

RECURSIVE miseLoop(_, _, _, _, _)
\* the loop of loadMiseSource over the names still to visit
miseLoop(acc, tls, names, fl, path) ==
    IF names = <<>> THEN acc
    ELSE miseLoop(addExternal(acc, Head(names), extractMiseVersion(tls[Head(names)]),
                              fl, "mise.toml", <<"mise:", path>>),
                  tls, Tail(names), fl, path)

\* loadMiseSource; names is the order in which range yields the [tools] table
loadMiseSource(file, names, acc, fl, path) ==
    IF ~file.exists THEN acc
    ELSE IF ~file.parses
    THEN [acc EXCEPT !.Warnings = Append(@, <<"Error parsing mise.toml: ", "toml error">>)]
    ELSE miseLoop(acc, file.tools, names, fl, path)

\* one line of .tool-versions is skipped: blank, comment or a single field
skipLine(line) == line.comment \/ Len(line.fields) < 2

RECURSIVE toolVersionsLoop(_, _, _, _)
\* the scanner loop of loadToolVersionsSource over the lines still to read
toolVersionsLoop(acc, lines, fl, path) ==
    IF lines = <<>> THEN acc
    ELSE IF skipLine(Head(lines)) THEN toolVersionsLoop(acc, Tail(lines), fl, path)
    ELSE toolVersionsLoop(addExternal(acc, Head(lines).fields[1], Head(lines).fields[2],
                                      fl, ".tool-versions", <<"tool-versions:", path>>),
                          Tail(lines), fl, path)

\* loadToolVersionsSource
loadToolVersionsSource(file, acc, fl, path) ==
    IF ~file.exists THEN acc ELSE toolVersionsLoop(acc, file.lines, fl, path)

\* loadChexSource: the tools of another chex file under the names not yet held
loadChexSource(file, acc, path) ==
    IF ~file.exists THEN acc
    ELSE [acc EXCEPT !.Tools =
            [n \in DOMAIN acc.Tools \cup DOMAIN Load(file).Tools |->
                IF exists(acc.Tools, n) THEN acc.Tools[n]
                ELSE configToTool(n, Load(file).Tools[n], <<"chex:", path>>)]]

\* loadSource(path, sourceType, tools, failOnUnknown, skipUnknown, warnOnUnknown)
loadSource(fsys, src, names, acc, fl) ==
    CASE src.Type = "chex" -> loadChexSource(fsys.files[src.Path], acc, src.Path)
      [] src.Type = "mise" -> loadMiseSource(fsys.files[src.Path], names, acc, fl, src.Path)
      [] src.Type = "tool-versions" ->
            loadToolVersionsSource(fsys.files[src.Path], acc, fl, src.Path)
      [] OTHER -> [acc EXCEPT !.Warnings =
                      Append(@, <<"Error: unknown source type: ", src.Type>>)]

RECURSIVE explicitSources(_, _, _, _, _)
\* LoadAndMerge's loop over cfg.Chex.Sources
explicitSources(fsys, srcs, names, acc, fl) ==
    IF srcs = <<>> THEN acc
    ELSE explicitSources(fsys, Tail(srcs), names,
                         loadSource(fsys, Head(srcs), names, acc, fl), fl)

\* os.Stat(path) succeeds and the source is loaded, or nothing happens
autoDetect(fsys, src, names, acc, fl) ==
    IF fsys.files[src.Path].exists THEN loadSource(fsys, src, names, acc, fl) ELSE acc

SourceMise == [Path |-> "mise.toml", Type |-> "mise"]
SourceToolVersions == [Path |-> ".tool-versions", Type |-> "tool-versions"]
SourceTeam == [Path |-> "team.toml", Type |-> "chex"]
SourceBogus == [Path |-> "asdf.toml", Type |-> "asdf"]

\* failOnUnknown, skipUnknown and warnOnUnknown of LoadAndMerge
unknownFlags(chex) ==
    [fail |-> chex.present /\ chex.FailOnUnknownTools,
     skip |-> chex.present /\ chex.SkipUnknownTools,
     warn |-> ~chex.present \/ chex.WarnOnUnknownTools]

\* the condition under which LoadAndMerge loads cfg.Chex.Sources rather than
\* auto-detecting
useExplicitSources(chex) == chex.present /\ Len(chex.Sources) > 0

\* mutant: auto-detection loads .tool-versions before mise.toml
mergeSources_toolVersionsFirst(fsys, cfg, names, acc) ==
    IF useExplicitSources(cfg.Chex)
    THEN explicitSources(fsys, cfg.Chex.Sources, names, acc, unknownFlags(cfg.Chex))
    ELSE autoDetect(fsys, SourceMise, names,
                    autoDetect(fsys, SourceToolVersions, names, acc,
                               unknownFlags(cfg.Chex)),
                    unknownFlags(cfg.Chex))

\* LoadAndMerge from the loaded main config on
mergeSources(fsys, cfg, names, acc) ==
    IF useExplicitSources(cfg.Chex)
    THEN explicitSources(fsys, cfg.Chex.Sources, names, acc, unknownFlags(cfg.Chex))
    ELSE autoDetect(fsys, SourceToolVersions, names,
                    autoDetect(fsys, SourceMise, names, acc, unknownFlags(cfg.Chex)),
                    unknownFlags(cfg.Chex))

\* the tools of the main config as Tool structs
mainTools(cfg) ==
    [n \in DOMAIN cfg.Tools |-> configToTool(n, cfg.Tools[n], <<"config">>)]

\* return result, nil
loadResult(acc) == [Tools |-> acc.Tools, Warnings |-> acc.Warnings, err |-> NoError]

\* LoadAndMerge(path, rootDir): [Tools, Warnings, err]
LoadAndMerge(fsys, names) ==
    IF ~fsys.main.exists
    THEN [Tools |-> <<>>, Warnings |-> <<>>,
          err |-> <<"failed to read config file: ", "no such file or directory">>]
    ELSE loadResult(mergeSources(fsys, Load(fsys.main), names,
                                 [Tools |-> mainTools(Load(fsys.main)),
                                  Warnings |-> <<>>]))

MaxSources == 2

\* tool sections of .chex.toml and of team.toml
CfgGo ==
    [Name |-> "", CLI |-> "go", Version |-> ">=1.2.0", VersionArg |-> "",
     VersionPattern |-> "", Optional |-> FALSE, Message |-> ""]
CfgFoo ==
    [Name |-> "Foo", CLI |-> "foo-cli", Version |-> "", VersionArg |-> "-V",
     VersionPattern |-> "v(\\d+\\.\\d+)", Optional |-> TRUE, Message |-> "install foo"]
CfgTeamGo ==
    [Name |-> "", CLI |-> "go1.20", Version |-> ">=1.20.0", VersionArg |-> "version",
     VersionPattern |-> "", Optional |-> TRUE, Message |-> ""]
CfgBar ==
    [Name |-> "", CLI |-> "bar", Version |-> "", VersionArg |-> "",
     VersionPattern |-> "", Optional |-> FALSE, Message |-> ""]
\* a tool section without the cli key: the field keeps its zero value
CfgNoCli ==
    [Name |-> "", CLI |-> "", Version |-> ">=1.2.0", VersionArg |-> "",
     VersionPattern |-> "", Optional |-> FALSE, Message |-> ""]

\* a map with no key, with one key, with two keys
NoKeys == [n \in {} |-> ""]
One(k, v) == [n \in {k} |-> v]
Two(k1, v1, k2, v2) == [n \in {k1, k2} |-> IF n = k1 THEN v1 ELSE v2]

\* the sequences of at most n distinct elements of S
DistinctSeqs(S, n) ==
    {q \in UNION {[1..k -> S] : k \in 0..n} : \A i, j \in DOMAIN q : i # j => q[i] # q[j]}

\* the [chex] tables of .chex.toml; present is false when the file has none
RawChexTables ==
    { [present |-> FALSE, sources |-> [set |-> FALSE, list |-> <<>>],
       fail_on_unknown_tools |-> "unset", skip_unknown_tools |-> "unset",
       warn_on_unknown_tools |-> "unset"] }
    \cup
    { [present |-> TRUE, sources |-> src, fail_on_unknown_tools |-> f,
       skip_unknown_tools |-> k, warn_on_unknown_tools |-> w]
        : src \in {[set |-> FALSE, list |-> <<>>]}
                    \cup {[set |-> TRUE, list |-> q]
                            : q \in DistinctSeqs({SourceMise, SourceToolVersions,
                                                  SourceTeam, SourceBogus}, MaxSources)},
          f \in {"unset", "true"}, k \in {"unset", "true"},
          w \in {"unset", "true", "false"} }

MainFiles ==
    { [exists |-> TRUE, chex |-> c, tools |-> t]
        : c \in RawChexTables,
          t \in {NoKeys, One("golang", CfgGo), One("foo", CfgFoo),
                 Two("golang", CfgGo, "foo", CfgFoo), One("docker", CfgNoCli)} }

TeamFiles ==
    { [exists |-> FALSE, chex |-> CHOOSE c \in RawChexTables : ~c.present, tools |-> NoKeys],
      [exists |-> TRUE, chex |-> CHOOSE c \in RawChexTables : ~c.present,
       tools |-> Two("golang", CfgTeamGo, "bar", CfgBar)] }

MiseFiles ==
    { [exists |-> FALSE, parses |-> FALSE, tools |-> NoKeys],
      [exists |-> TRUE, parses |-> FALSE, tools |-> NoKeys],
      [exists |-> TRUE, parses |-> TRUE,
       tools |-> One("golang", [kind |-> "string", str |-> "1.21", hasVersion |-> FALSE,
                                version |-> ""])],
      [exists |-> TRUE, parses |-> TRUE,
       tools |-> Two("golang", [kind |-> "string", str |-> "1.21", hasVersion |-> FALSE,
                                version |-> ""],
                     "foo", [kind |-> "table", str |-> "", hasVersion |-> TRUE,
                             version |-> "2"])],
      [exists |-> TRUE, parses |-> TRUE,
       tools |-> Two("foo", [kind |-> "table", str |-> "", hasVersion |-> FALSE,
                             version |-> ""],
                     "baz", [kind |-> "string", str |-> "7", hasVersion |-> FALSE,
                             version |-> ""])] }

ToolVersionsFiles ==
    { [exists |-> FALSE, lines |-> <<>>],
      [exists |-> TRUE, lines |-> << [comment |-> FALSE, fields |-> <<"foo", "3">>] >>],
      [exists |-> TRUE,
       lines |-> << [comment |-> FALSE, fields |-> <<"golang", "1.20">>],
                    [comment |-> TRUE, fields |-> <<"#", "golang", "1.18">>],
                    [comment |-> FALSE, fields |-> <<"golang", "1.19">>] >>],
      [exists |-> TRUE,
       lines |-> << [comment |-> FALSE, fields |-> <<>>],
                    [comment |-> FALSE, fields |-> <<"bar">>],
                    [comment |-> FALSE, fields |-> <<"bar", "1", "2">>] >>] }

\* the files of the root directory
FileSystems ==
    { [main |-> mn,
       files |-> [p \in {"mise.toml", ".tool-versions", "team.toml", "asdf.toml"} |->
                    CASE p = "mise.toml" -> ms
                      [] p = ".tool-versions" -> tv
                      [] p = "team.toml" -> tm
                      [] OTHER -> [exists |-> FALSE]]]
        : mn \in MainFiles, ms \in MiseFiles, tv \in ToolVersionsFiles, tm \in TeamFiles }
    \cup
    { [main |-> [exists |-> FALSE, chex |-> CHOOSE c \in RawChexTables : ~c.present,
                 tools |-> NoKeys],
       files |-> [p \in {"mise.toml", ".tool-versions", "team.toml", "asdf.toml"} |->
                    CASE p = "mise.toml" -> ms
                      [] p = ".tool-versions" -> tv
                      [] p = "team.toml" -> CHOOSE tm \in TeamFiles : ~tm.exists
                      [] OTHER -> [exists |-> FALSE]]]
        : ms \in MiseFiles, tv \in ToolVersionsFiles }

InitLoad ==
    /\ NoRun
    /\ NoCheck
    /\ NoCheckAll
    /\ text = <<>>
    /\ pat = ""
    /\ fs \in FileSystems
    /\ ret = [Tools |-> <<>>, Warnings |-> <<>>, err |-> NoError]
    /\ pc = "load_call"

\* a call of LoadAndMerge("", "."); range yields the [tools] table of
\* mise.toml in some order
CallLoadAndMerge ==
    /\ pc = "load_call"
    /\ \E names \in rangeOrders(fs.files["mise.toml"].tools) :
          ret' = LoadAndMerge(fs, names)
    /\ pc' = "load_ret"
    /\ UNCHANGED <<tool, onPath, env, idx, elapsed, calls, versionOutput, result,
                   stages, text, pat, allVars, cfgVars, runVars>>

NextLoad == CallLoadAndMerge

SpecLoad == InitLoad /\ [][NextLoad]_vars

----------------------------------------------------------------------------
(* Properties of Check (Spec), stated over the history of the check.       *)

\* Check has returned
Done == pc = "done"

\* the descriptor has a version constraint
HasConstraint == tool.Version # ""

\* the descriptor has no explicit probe arguments
SmartGuess == HasConstraint /\ tool.VersionArg = <<>>

\* the k-th call captured text that is non-empty and passes the heuristic
Qualifies(k) == calls[k].output # <<>> /\ looksLikeVersionOutput(calls[k].output)

\* the version probe is over and it succeeded
ProbeSucceeded ==
    /\ HasConstraint
    /\ calls # <<>>
    /\ pc \notin {"start", "explicit", "guess"}
    /\ IF SmartGuess THEN Qualifies(Len(calls)) ELSE calls[Len(calls)].err = NoError

\* the version probe is over and it failed
ProbeFailed ==
    /\ HasConstraint
    /\ Done
    /\ IF SmartGuess THEN \A k \in 1..Len(calls) : ~Qualifies(k)
       ELSE calls # <<>> /\ calls[Len(calls)].err # NoError

\* the text the probe returned
ProbeText == calls[Len(calls)].output

\* what extraction makes of the probe's text
Extracted == extractVersion(ProbeText, tool.VersionPattern)

\* the extracted version satisfies the parsed constraint
Satisfied ==
    constraintCheck(NewConstraint(tool.Version), NewVersion(Extracted.version).ver)

\* the extracted version and the constraint both parse
BothParse == NewConstraint(tool.Version).ok /\ NewVersion(Extracted.version).ok

\* C1: with a version constraint, Check returns Pass if and only if the probe
\* succeeded, the extraction succeeded, constraint and version both parsed and
\* the version satisfies the constraint; otherwise Fail or OptionalMissing.
C1_PassIffSatisfied ==
    (Done /\ HasConstraint) =>
        /\ result.Status \in {StatusPass, StatusFail, StatusOptionalMissing}
        /\ result.Status = StatusPass <=>
              (/\ ProbeSucceeded
               /\ Extracted.err = NoError
               /\ BothParse
               /\ Satisfied)

\* C1 witness: a smart-guess check passed after a rejected first attempt
C1_Witness ==
    /\ Done /\ HasConstraint
    /\ result.Status = StatusPass
    /\ Len(calls) > 1

\* the three causes that optional downgrades
CommandNotFound == Done /\ ~HasConstraint /\ ~onPath
Mismatch == Done /\ ProbeSucceeded /\ Extracted.err = NoError /\ BothParse /\ ~Satisfied

\* C2: for an optional tool the status is OptionalMissing, never Fail, when the
\* command is not found by the existence check, when the probe failed, or when
\* the installed version parses and does not satisfy the constraint; and only
\* then.
C2_OptionalDowngrade ==
    (Done /\ tool.Optional) =>
        (result.Status = StatusOptionalMissing
            <=> (CommandNotFound \/ ProbeFailed \/ Mismatch))

\* C2 witness: an optional tool whose installed version does not satisfy the
\* constraint
C2_Witness ==
    /\ Done /\ tool.Optional /\ Mismatch
    /\ result.Status = StatusOptionalMissing

\* the check ended in the extraction, the constraint parse or the version parse
StageFailure ==
    /\ Done /\ ProbeSucceeded
    /\ \/ Extracted.err # NoError
       \/ ~NewConstraint(tool.Version).ok
       \/ ~NewVersion(Extracted.version).ok

\* C3: a check that ends because the pattern is invalid, no version was found,
\* the constraint does not parse or the version does not parse has status
\* Fail, also for an optional tool.
C3_StageFailuresNotDowngraded ==
    StageFailure => result.Status = StatusFail

\* C3 witness: an optional tool whose probe text holds no version
C3_Witness ==
    /\ StageFailure /\ tool.Optional
    /\ result.Status = StatusFail
    /\ result.Error = <<"failed to extract version: ", "no version found in output">>

\* C4 as stated: every outcome that is not Pass carries a failure reason, and
\* every Pass outcome carries none.
C4_Claim ==
    Done => (result.Status # StatusPass <=> result.Error # NoError)

\* C5: without a version constraint the outcome is decided by the search path
\* alone and the command is never run: Pass with the resolved path when it
\* resolves; Fail, or OptionalMissing for an optional tool, with the reason
\* "<command>: command not found" and no path when it does not; no installed
\* version and no raw output in both cases.
C5_ExistenceOnly ==
    (Done /\ ~HasConstraint) =>
        /\ calls = <<>>
        /\ result.InstalledVersion = <<>>
        /\ result.Output = <<>>
        /\ IF onPath
           THEN /\ result.Status = StatusPass
                /\ result.Path = <<"/usr/bin/", tool.CLI>>
                /\ result.Error = NoError
           ELSE /\ result.Status =
                     (IF tool.Optional THEN StatusOptionalMissing ELSE StatusFail)
                /\ result.Path = <<>>
                /\ result.Error = <<tool.CLI, ": command not found">>

\* C5 witness: an optional tool without constraint that does not resolve
C5_Witness ==
    /\ Done /\ ~HasConstraint /\ ~onPath /\ tool.Optional
    /\ result.Status = StatusOptionalMissing

\* C6 as stated: with explicit probe arguments the probe fails only when the
\* process failed and no text was captured; any captured text is a successful
\* probe.
C6_Claim ==
    (HasConstraint /\ tool.VersionArg # <<>> /\ calls # <<>>) =>
        /\ (pc = "done" /\ stages = <<"probe">>)
              <=> (calls[1].err # NoError /\ calls[1].output = <<>>)
        /\ calls[1].output # <<>> => result.Output = calls[1].output

\* C7: the smart-guess attempts are made in the order of commonVersionArgs; no
\* attempt follows one whose text is non-empty and passes the heuristic; the
\* probe returns the text of that attempt, whatever its exit status, and fails
\* only when every argument set was tried.
C7_FirstQualifyingAttempt ==
    SmartGuess =>
        /\ Len(calls) <= Len(commonVersionArgs)
        /\ \A k \in 1..Len(calls) : calls[k].args = commonVersionArgs[k]
        /\ \A k \in 1..(Len(calls) - 1) : ~Qualifies(k)
        /\ pc = "guess" => \A k \in 1..Len(calls) : ~Qualifies(k)
        /\ pc \notin {"start", "guess"} =>
              IF calls # <<>> /\ Qualifies(Len(calls))
              THEN result.Output = ProbeText /\ versionOutput = ProbeText
              ELSE /\ Len(calls) = Len(commonVersionArgs)
                   /\ pc = "done"
                   /\ result.Error = <<tool.CLI, ": failed to get version">>

\* C7 witness: the probe returned the text of a later attempt that exited with
\* a non-zero status
C7_Witness ==
    /\ SmartGuess
    /\ Len(calls) > 1
    /\ Qualifies(Len(calls))
    /\ calls[Len(calls)].err = <<"exit status 1">>
    /\ result.Output = ProbeText

\* C8 as stated: every smart-guess attempt has its own 5-second timeout: an
\* attempt is killed only when it alone runs longer than the timeout, and the
\* argument set after a timed-out attempt is still invoked.
C8_Claim ==
    (SmartGuess /\ onPath) =>
        \A k \in 1..Len(calls) :
            /\ calls[k].started
            /\ calls[k].killed => calls[k].beh.dur > Timeout

\* the check ended in the given way after a successful extraction
EndedSatisfied == result.Status = StatusPass
EndedUnsatisfied == Mismatch
EndedConstraintInvalid == Done /\ stages[Len(stages)] = "constraint"
EndedVersionUnparseable == Done /\ stages[Len(stages)] = "version"

\* C12: once a check with a constraint has returned, the installed version is
\* the extracted string when the probe and the extraction succeeded, whether
\* the constraint was satisfied, not satisfied or invalid or the version did
\* not parse; it is absent when the probe or the extraction failed.  It is
\* already there when the extraction stage is left.
C12_InstalledVersion ==
    /\ (Done /\ HasConstraint) =>
          IF ProbeSucceeded /\ Extracted.err = NoError
          THEN /\ result.InstalledVersion = Extracted.version
               /\ \/ EndedSatisfied \/ EndedUnsatisfied
                  \/ EndedConstraintInvalid \/ EndedVersionUnparseable
          ELSE result.InstalledVersion = <<>>
    /\ pc \in {"constraint", "version", "compare"} =>
          result.InstalledVersion = Extracted.version

\* C12 witness: the constraint did not parse and the result still carries the
\* version that was extracted
C12_Witness ==
    /\ EndedConstraintInvalid
    /\ result.Status = StatusFail
    /\ result.InstalledVersion = <<"1", ".", "2", ".", "3">>

----------------------------------------------------------------------------
(* Properties of looksLikeVersionOutput (SpecLooks).                       *)

\* the text before the first line break
FirstLineOf(t) == SubSeq(t, 1, FirstIndex(t, "\n") - 1)

\* the line holds none of the reject patterns (case-insensitively), a
\* decimal digit and a "."
VersionLikeLine(line) ==
    /\ \A k \in 1..Len(rejectPatterns) : ~Contains(ToLower(line), rejectPatterns[k])
    /\ \E i \in 1..Len(line) : line[i] \in Digits
    /\ \E i \in 1..Len(line) : line[i] = "."

\* C9 as stated: looksLikeVersionOutput returns true if and only if the first
\* line is at most 200 characters long, holds none of the reject patterns and
\* holds a digit and a "."; empty text is rejected.
C9_Original ==
    pc = "looks_ret" =>
        /\ ret <=> (/\ Len(FirstLineOf(text)) <= MaxFirstLineLen
                    /\ VersionLikeLine(FirstLineOf(text)))
        /\ text = <<>> => ~ret

\* C9 amended: looksLikeVersionOutput returns true if and only if the first
\* line, after surrounding white space is trimmed, is at most 200 bytes long,
\* holds none of the reject patterns and holds a digit and a "."; empty text
\* is rejected and the result is that of the first line alone.
C9_LooksLikeVersion ==
    pc = "looks_ret" =>
        /\ ret <=> (/\ ByteLen(TrimSpace(FirstLineOf(text))) <= MaxFirstLineLen
                    /\ VersionLikeLine(TrimSpace(FirstLineOf(text))))
        /\ text = <<>> => ~ret
        /\ ret = looksLikeVersionOutput(FirstLineOf(text))

\* C9 witness: a text is accepted whose first line has more than 200
\* characters before trimming and exactly 200 bytes after it
C9_Witness ==
    /\ pc = "looks_ret"
    /\ ret
    /\ Len(FirstLineOf(text)) > MaxFirstLineLen
    /\ ByteLen(TrimSpace(FirstLineOf(text))) = MaxFirstLineLen

----------------------------------------------------------------------------
(* Properties of extractVersion (SpecExtract).                             *)

\* the first match of the compiled pattern of pat in the whole of t
FirstMatch(t, p) ==
    MatchAt(regexpCompile(p).re, t, MinOf(MatchStarts(regexpCompile(p).re, t)))

\* the pattern p has a capture group
HasGroup(p) == regexpCompile(p).re.litGroup \/ regexpCompile(p).re.numGroup

\* C10: with a pattern supplied extractVersion matches it against the whole
\* raw text: a pattern that does not compile gives an invalid-pattern error, a
\* pattern without a match in the text fails (whatever the default heuristic
\* would find), a pattern with a capture group gives the first group's match
\* and a pattern without one gives the whole match.
C10_CustomPattern ==
    (pc = "extract_ret" /\ pat # "") =>
        IF ~regexpCompile(pat).ok
        THEN /\ ret.version = <<>>
             /\ ret.err # NoError /\ Head(ret.err) = "invalid version pattern: "
        ELSE IF MatchStarts(regexpCompile(pat).re, text) = {}
        THEN ret.version = <<>> /\ ret.err = <<"pattern did not match">>
        ELSE IF HasGroup(pat)
        THEN ret.err = NoError /\ ret.version = FirstMatch(text, pat).group
        ELSE ret.err = NoError /\ ret.version = FirstMatch(text, pat).whole

\* C10 witness: a pattern with a capture group matched on a later line of the
\* text, and the group, not the whole match, was returned
C10_Witness ==
    /\ pc = "extract_ret"
    /\ pat = PatGroup
    /\ ret.err = NoError
    /\ ret.version # <<>>
    /\ ret.version # FirstMatch(text, pat).whole
    /\ FirstIndex(text, "\n") < MinOf(MatchStarts(regexpCompile(pat).re, text))

\* s is a non-empty run of decimal digits
IsNumber(s) == s # <<>> /\ \A i \in 1..Len(s) : s[i] \in Digits

\* s has the form digits.digits or digits.digits.digits
IsVersionForm(s) ==
    /\ Len(SplitOn(s, ".")) \in {2, 3}
    /\ \A k \in 1..Len(SplitOn(s, ".")) : IsNumber(SplitOn(s, ".")[k])

\* the positions of line at which a substring of the version form starts
VersionStarts(line) ==
    {i \in 1..Len(line) : \E j \in i..Len(line) : IsVersionForm(SubSeq(line, i, j))}

\* the lines of t that hold a substring of the version form
VersionLines(t) == {k \in 1..Len(Split(t)) : VersionStarts(Split(t)[k]) # {}}

\* v starts at the leftmost position of line where the version form starts,
\* and no longer substring of that form starts there
LeftmostVersion(line, v) ==
    \E i \in VersionStarts(line) :
        /\ \A h \in VersionStarts(line) : i <= h
        /\ i + Len(v) - 1 <= Len(line)
        /\ v = SubSeq(line, i, i + Len(v) - 1)
        /\ \A j \in (i + Len(v))..Len(line) : ~IsVersionForm(SubSeq(line, i, j))

\* C11: without a pattern extractVersion fails when no line of the text holds a
\* substring digits.digits or digits.digits.digits; otherwise it returns, from
\* the first line that holds one, the substring of that form that starts
\* leftmost, and the result is made of digits and dots only.
C11_DefaultExtraction ==
    (pc = "extract_ret" /\ pat = "") =>
        IF VersionLines(text) = {}
        THEN ret.version = <<>> /\ ret.err = <<"no version found in output">>
        ELSE /\ ret.err = NoError
             /\ IsVersionForm(ret.version)
             /\ \A i \in 1..Len(ret.version) : ret.version[i] \in Digits \cup {"."}
             /\ LeftmostVersion(Split(text)[MinOf(VersionLines(text))], ret.version)

\* C11 witness: the version was taken from a later line, after a line that
\* holds a digit but no version
C11_Witness ==
    /\ pc = "extract_ret" /\ pat = ""
    /\ ret.err = NoError
    /\ MinOf(VersionLines(text)) > 1
    /\ "1" \in {Split(text)[1][i] : i \in 1..Len(Split(text)[1])}

----------------------------------------------------------------------------
(* Check as a function of the descriptor t and of the environment w of its *)
(* command, for an environment in which every argument list is settled.    *)

\* what the command does when started with args once e seconds are used
behaviourAt(w, args, e) ==
    IF w.found /\ e < Timeout THEN w.env[args] ELSE NoBehaviour

\* checkExistence(tool, result)
existenceOutcome(t, w) ==
    IF w.found
    THEN [NewResult(t) EXCEPT !.Status = StatusPass, !.Path = <<"/usr/bin/", t.CLI>>]
    ELSE [NewResult(t) EXCEPT !.Status = failStatus(t),
                              !.Error = <<t.CLI, ": command not found">>]

RECURSIVE guessFrom(_, _, _, _)
\* one iteration of the smart-guess loop, run being what cmd.Run produced
guessStep(t, w, k, run) ==
    IF guessAccepts(runCommand(run).output)
    THEN [output |-> runCommand(run).output, err |-> NoError]
    ELSE guessFrom(t, w, k + 1, run.elapsed)

\* the smart-guess loop from its k-th argument set on, e seconds being used
guessFrom(t, w, k, e) ==
    IF k > Len(commonVersionArgs)
    THEN [output |-> <<>>, err |-> <<t.CLI, ": failed to get version">>]
    ELSE guessStep(t, w, k, cmdRun(w.found, behaviourAt(w, commonVersionArgs[k], e), e))

\* executeVersionCommand(tool): [output, err]
probeOutcome(t, w) ==
    IF t.VersionArg # <<>>
    THEN explicitProbe(t, runCommand(cmdRun(w.found,
                                            behaviourAt(w, Fields(t.VersionArg), 0), 0)))
    ELSE guessFrom(t, w, 1, 0)

\* checkVersion from the parsed constraint c and the parsed version nv on
parseOutcome(t, r, c, nv) ==
    IF ~c.ok
    THEN [r EXCEPT !.Status = stageFailStatus(t),
                   !.Error = <<"invalid version constraint '", t.Version, "': ",
                               "improper constraint">>]
    ELSE IF ~nv.ok
    THEN [r EXCEPT !.Status = stageFailStatus(t),
                   !.Error = <<"failed to parse installed version '",
                               r.InstalledVersion, "': ", "Invalid Semantic Version">>]
    ELSE [r EXCEPT !.Status = compareStatus(t, constraintCheck(c, nv.ver))]

\* checkVersion from what extractVersion returned on
extractOutcome(t, r, x) ==
    IF x.err # NoError
    THEN [r EXCEPT !.Status = stageFailStatus(t),
                   !.Error = <<"failed to extract version: ">> \o x.err]
    ELSE parseOutcome(t, [r EXCEPT !.InstalledVersion = x.version],
                      NewConstraint(t.Version), NewVersion(x.version))

\* checkVersion from what executeVersionCommand returned on
versionOutcome(t, p) ==
    IF p.err # NoError
    THEN [NewResult(t) EXCEPT !.Status = failStatus(t), !.Error = p.err]
    ELSE extractOutcome(t, [NewResult(t) EXCEPT !.Output = p.output],
                        extractVersion(p.output, t.VersionPattern))

\* Check(tool)
checkOutcome(t, w) ==
    IF t.Version = "" THEN existenceOutcome(t, w)
    ELSE versionOutcome(t, probeOutcome(t, w))

----------------------------------------------------------------------------
(* Properties of CheckAll (SpecAll).                                       *)

\* CheckAll has returned
AllDone == pc = "all_done"

\* the map holds the key
Held(k) == k \in DOMAIN tools

\* the descriptors of the keys of f that the map holds, in the order of f
HeldTools(f) == [i \in 1..Len(SelectSeq(f, Held)) |-> tools[SelectSeq(f, Held)[i]]]

\* C13: with a non-empty list of requested keys CheckAll returns one outcome
\* per entry of the list, in the order of the list, a key listed twice giving
\* two outcomes; and the descriptors handed to Check are those of the listed
\* keys that the map holds, once per listing, and no other.
C13_FilterOrder ==
    Len(filter) > 0 =>
        /\ AllDone =>
              /\ Len(results) = Len(filter)
              /\ \A k \in 1..Len(filter) :
                    IF Held(filter[k])
                    THEN results[k].Tool = tools[filter[k]]
                    ELSE results[k].Tool.Name = filter[k]
              /\ checked = HeldTools(filter)
        /\ \A i \in 1..Len(checked) :
              \E k \in 1..Len(filter) : Held(filter[k]) /\ checked[i] = tools[filter[k]]

\* C13 witness: a key of the map was requested first and third, another key
\* in between, and the map holds a key that was not requested
C13_Witness ==
    /\ AllDone
    /\ Len(filter) = 3
    /\ Held(filter[1]) /\ filter[3] = filter[1] /\ filter[2] # filter[1]
    /\ \E k \in DOMAIN tools : \A i \in 1..Len(filter) : filter[i] # k
    /\ results[3] = results[1]
    /\ Len(checked) >= 2

\* the number of keys among the first n of order that the map does not hold
RECURSIVE MissingUpTo(_)
MissingUpTo(n) ==
    IF n = 0 THEN 0
    ELSE MissingUpTo(n - 1) + (IF Held(order[n]) THEN 0 ELSE 1)

\* C14: for a requested key that the map does not hold CheckAll appends, at
\* the key's position, one outcome with status Fail, the reason
\* "tool '<key>' not found in configuration" and a descriptor that has the key
\* as name and command and nothing else; Check is not called for such a key.
C14_UnknownKey ==
    /\ \A k \in 1..Len(results) :
          ~Held(order[k]) =>
              /\ results[k].Status = StatusFail
              /\ results[k].Error = <<"tool '", order[k], "' not found in configuration">>
              /\ results[k].Tool = [NoTool EXCEPT !.Name = order[k], !.CLI = order[k]]
              /\ results[k].InstalledVersion = <<>>
              /\ results[k].Path = <<>>
              /\ results[k].Output = <<>>
    /\ \A i \in 1..Len(checked), k \in 1..Len(order) :
          ~Held(order[k]) => checked[i].Name # order[k] /\ checked[i].CLI # order[k]
    /\ pc = "all_loop" => Len(checked) + MissingUpTo(pos - 1) = Len(results)
    /\ AllDone => Len(checked) + MissingUpTo(Len(order)) = Len(results)

\* C14 witness: the only requested key is not in a map that holds another
\* key, and the single outcome is the synthetic one
C14_Witness ==
    /\ AllDone
    /\ DOMAIN tools # {}
    /\ Len(filter) = 1 /\ ~Held(filter[1])
    /\ Len(results) = 1
    /\ results[1].Status = StatusFail
    /\ checked = <<>>

\* C15: every outcome of CheckAll is the outcome of Check for that descriptor
\* alone (and the synthetic outcome for a key the map does not hold), whatever
\* came before it in the run; and the loop visits every key of its order,
\* whatever the outcomes.
C15_Independent ==
    /\ Len(results) <= Len(order)
    /\ \A k \in 1..Len(results) :
          results[k] = IF Held(order[k])
                       THEN checkOutcome(tools[order[k]], world[tools[order[k]].CLI])
                       ELSE notFoundResult(order[k])
    /\ AllDone => Len(results) = Len(order)

\* C15 witness: a check that passed follows an unknown key and a check that
\* failed with a reason
C15_Witness ==
    /\ AllDone
    /\ Len(results) = 3
    /\ ~Held(order[1])
    /\ Held(order[2]) /\ results[2].Status = StatusFail /\ results[2].Error # NoError
    /\ Held(order[3]) /\ results[3].Status = StatusPass /\ results[3].Error = NoError

\* C16: with an empty list of requested keys CheckAll returns one outcome for
\* every descriptor of the map and no other: as many outcomes as the map has
\* keys, and every key's descriptor in exactly one of them.
C16_WholeMap ==
    (AllDone /\ Len(filter) = 0) =>
        /\ Len(results) = Cardinality(DOMAIN tools)
        /\ \A k \in DOMAIN tools :
              Cardinality({i \in 1..Len(results) : results[i].Tool = tools[k]}) = 1
        /\ \A i \in 1..Len(results) : \E k \in DOMAIN tools : results[i].Tool = tools[k]

\* C16 witness: the whole map of two descriptors was checked, "node" first
C16_Witness ==
    /\ AllDone /\ Len(filter) = 0
    /\ Cardinality(DOMAIN tools) = 2
    /\ Len(results) = 2
    /\ results[1].Tool.Name = "node"

\* a Check called by CheckAll is running or has just returned
InCheck ==
    pc \in {"start", "explicit", "guess", "extract", "constraint", "version",
            "compare", "done"}

\* C22: two checks of the same descriptor in the same environment give the
\* same status; a check leaves the descriptor as the map holds it, and every
\* check of a descriptor sees the search-path resolution and the behaviour per
\* argument list that the environment has for its command.
C22_Deterministic ==
    /\ \A j, k \in 1..Len(results) :
          order[j] = order[k] => results[j].Status = results[k].Status
    /\ \A k \in 1..Len(results) : Held(order[k]) => results[k].Tool = tools[order[k]]
    /\ \A i \in 1..Len(checked) : \E k \in DOMAIN tools : checked[i] = tools[k]
    /\ InCheck =>
          /\ tool = tools[order[pos]]
          /\ onPath = world[tool.CLI].found
          /\ \A i \in 1..Len(calls) :
                calls[i].started => calls[i].beh = world[tool.CLI].env[calls[i].args]

\* C22 witness: a smart-guess descriptor was checked first and third, with
\* processes started both times, and passed both times
C22_Witness ==
    /\ AllDone
    /\ Len(results) = 3
    /\ order[1] = order[3] /\ order[2] # order[1]
    /\ Held(order[1])
    /\ tools[order[1]].Version # "" /\ tools[order[1]].VersionArg = <<>>
    /\ results[1].Status = StatusPass /\ results[3].Status = StatusPass
    /\ Len(calls) > 1

----------------------------------------------------------------------------
(* Properties of ShouldExitWithError (SpecExit).                           *)

\* the statuses of the result set
StatusesOf(rs) == {rs[i].Status : i \in 1..Len(rs)}

\* C17: ShouldExitWithError returns true if and only if some outcome of the
\* result set has status Fail; a set of Pass and OptionalMissing outcomes
\* only, or an empty set, gives false.
C17_ExitOnFail ==
    pc = "exit_ret" =>
        /\ ret <=> StatusFail \in StatusesOf(results)
        /\ StatusesOf(results) \subseteq {StatusPass, StatusOptionalMissing} => ~ret
        /\ results = <<>> => ~ret

\* C17 witness: a result set with a Pass and an OptionalMissing outcome and no
\* Fail does not make the run unsuccessful
C17_Witness ==
    /\ pc = "exit_ret"
    /\ StatusesOf(results) = {StatusPass, StatusOptionalMissing}
    /\ ~ret

----------------------------------------------------------------------------
(* Properties of LoadAndMerge (SpecLoad).                                  *)

\* LoadAndMerge has returned a result
Loaded == pc = "load_ret" /\ ret.err = NoError

\* the tool was added by loadMiseSource or loadToolVersionsSource
FromManifest(tl) == Head(tl.Source) \in {"mise:", "tool-versions:"}

\* the warnings hold the unknown-tool warning for the name
WarnedAbout(name) ==
    \E i \in 1..Len(ret.Warnings) :
        /\ ret.Warnings[i][1] = "Warning: Unknown tool '"
        /\ ret.Warnings[i][2] = name

\* C18: after LoadAndMerge every key of the main config has the descriptor of
\* the main config: command, constraint, probe argument, pattern, optional
\* flag and the source "config", whatever mise.toml, .tool-versions and chex
\* sources define for the key.
C18_MainConfigWins ==
    Loaded =>
        \A n \in DOMAIN fs.main.tools :
            /\ n \in DOMAIN ret.Tools
            /\ ret.Tools[n].CLI = fs.main.tools[n].CLI
            /\ ret.Tools[n].Version = fs.main.tools[n].Version
            /\ ret.Tools[n].VersionArg = fs.main.tools[n].VersionArg
            /\ ret.Tools[n].VersionPattern = fs.main.tools[n].VersionPattern
            /\ ret.Tools[n].Optional = fs.main.tools[n].Optional
            /\ ret.Tools[n].Source = <<"config">>

\* C18 witness: "golang" is defined in the main config, in a chex source and
\* in mise.toml, both sources were loaded, and the main config's stays
C18_Witness ==
    /\ Loaded
    /\ "golang" \in DOMAIN fs.main.tools
    /\ fs.main.chex.sources.list = <<SourceTeam, SourceMise>>
    /\ "golang" \in DOMAIN fs.files["team.toml"].tools
    /\ "golang" \in DOMAIN fs.files["mise.toml"].tools
    /\ "bar" \in DOMAIN ret.Tools
    /\ "foo" \in DOMAIN ret.Tools /\ FromManifest(ret.Tools["foo"])
    /\ ret.Tools["golang"].Source = <<"config">>

\* C19 as stated: when the [chex] table sets sources to an empty array,
\* LoadAndMerge returns the tools of .chex.toml and no other, whatever
\* mise.toml and .tool-versions hold.
C19_Claim ==
    (/\ Loaded
     /\ fs.main.chex.present
     /\ fs.main.chex.sources.set
     /\ fs.main.chex.sources.list = <<>>) =>
        /\ DOMAIN ret.Tools = DOMAIN fs.main.tools
        /\ \A n \in DOMAIN ret.Tools : ret.Tools[n].Source = <<"config">>

\* C20 as stated: when warn_on_unknown_tools is not set, with or without a
\* [chex] table, every tool without a known mapping that was added from
\* mise.toml or .tool-versions has an unknown-tool warning.
C20_Claim ==
    (Loaded /\ fs.main.chex.warn_on_unknown_tools = "unset") =>
        \A n \in DOMAIN ret.Tools :
            (FromManifest(ret.Tools[n]) /\ n \notin DOMAIN knownToolMappings)
                => WarnedAbout(n)

\* C21 as stated: every descriptor that LoadAndMerge returns has a non-empty
\* command, also for a tool section that does not set cli.
C21_Claim ==
    Loaded => \A n \in DOMAIN ret.Tools : ret.Tools[n].CLI # ""

----------------------------------------------------------------------------
(* Further properties of Check (Spec): the probe.                          *)

\* the calls that started a process
StartedCalls == {k \in 1..Len(calls) : calls[k].started}

\* the smart-guess loop ran out of argument sets
Exhausted == SmartGuess /\ ProbeFailed

\* C23: when no smart-guess attempt qualifies, runCommand has been called six
\* times, once with each argument set of the sequence and in its order, no
\* argument set twice and at most six processes started, and the check ends
\* with the reason "<command>: failed to get version" and with status
\* OptionalMissing for an optional descriptor, Fail otherwise.
C23_Exhaustion ==
    Exhausted =>
        /\ Len(calls) = 6
        /\ \A k \in 1..Len(calls) : calls[k].args = commonVersionArgs[k]
        /\ \A j, k \in 1..Len(calls) : calls[j].args = calls[k].args => j = k
        /\ Cardinality(StartedCalls) <= 6
        /\ result.Error = <<tool.CLI, ": failed to get version">>
        /\ result.Status = IF tool.Optional THEN StatusOptionalMissing ELSE StatusFail
        /\ stages = <<"probe">>

\* an optional descriptor whose six attempts each started a process and none
\* qualified
C23_Witness ==
    /\ Exhausted
    /\ tool.Optional
    /\ Cardinality(StartedCalls) = 6
    /\ result.Status = StatusOptionalMissing

\* the descriptor sets explicit probe arguments
Explicit == HasConstraint /\ tool.VersionArg # <<>>

\* C24: with explicit probe arguments runCommand is called once, with the
\* whitespace-split fields of the argument string, and never with anything
\* else; when that call fails the check is over with the reason
\* "<command>: <error>" and the status of a missing tool.
C24_ExplicitOnce ==
    Explicit =>
        /\ Len(calls) <= 1
        /\ pc \notin {"start", "explicit"} => Len(calls) = 1
        /\ \A k \in 1..Len(calls) : calls[k].args = Fields(tool.VersionArg)
        /\ calls # <<>> /\ calls[1].err # NoError =>
              /\ Done
              /\ stages = <<"probe">>
              /\ result.Error = <<tool.CLI, ": ">> \o calls[1].err
              /\ result.Status = IF tool.Optional THEN StatusOptionalMissing
                                  ELSE StatusFail

\* a two-word argument string was split in two and the process that was
\* started with them failed
C24_Witness ==
    /\ Explicit
    /\ Done
    /\ tool.VersionArg = ArgTwo
    /\ Len(calls) = 1
    /\ calls[1].args = << <<"-", "v">>, <<"-", "V">> >>
    /\ calls[1].started
    /\ calls[1].err # NoError
    /\ result.Error # NoError

----------------------------------------------------------------------------
(* Further properties of LoadAndMerge (SpecLoad): unknown tools.           *)

\* the sources LoadAndMerge goes through, in order
UsedSources ==
    IF fs.main.chex.present /\ fs.main.chex.sources.list # <<>>
    THEN fs.main.chex.sources.list
    ELSE <<SourceMise, SourceToolVersions>>

\* the names a mise.toml or .tool-versions source offers
Offers(src) ==
    LET f == fs.files[src.Path] IN
    IF ~f.exists THEN {}
    ELSE IF src.Type = "mise" THEN (IF f.parses THEN DOMAIN f.tools ELSE {})
    ELSE IF src.Type = "tool-versions"
    THEN {f.lines[i].fields[1] :
            i \in {j \in 1..Len(f.lines) :
                     ~f.lines[j].comment /\ Len(f.lines[j].fields) >= 2}}
    ELSE {}

\* the names offered by the mise.toml and .tool-versions sources in use
Offered == UNION {Offers(UsedSources[i]) : i \in 1..Len(UsedSources)}

\* neither the main config nor a chex source in use defines the name
NotDefinedElsewhere(n) ==
    /\ n \notin DOMAIN fs.main.tools
    /\ \A i \in 1..Len(UsedSources) :
          UsedSources[i].Type = "chex" /\ fs.files[UsedSources[i].Path].exists
              => n \notin DOMAIN fs.files[UsedSources[i].Path].tools

\* the settings of the [chex] table as written in the file
SkipOn == fs.main.chex.present /\ fs.main.chex.skip_unknown_tools = "true"
FailOn == fs.main.chex.present /\ fs.main.chex.fail_on_unknown_tools = "true"
WarnSetOn == fs.main.chex.present /\ fs.main.chex.warn_on_unknown_tools = "true"

\* some message, the "Error: Unknown tool" message, is about the name
Messaged(n) ==
    \E i \in 1..Len(ret.Warnings) :
        Len(ret.Warnings[i]) >= 2 /\ ret.Warnings[i][2] = n
ErrorAbout(n) ==
    \E i \in 1..Len(ret.Warnings) :
        ret.Warnings[i][1] = "Error: Unknown tool '" /\ ret.Warnings[i][2] = n

\* the result holds the name as added from mise.toml or .tool-versions
AddedFromManifest(n) == n \in DOMAIN ret.Tools /\ FromManifest(ret.Tools[n])

\* C25: for a name that mise.toml or .tool-versions offers and that nothing
\* else defines: a known name is added with its mapped command and no
\* message; an unknown name is, with skip_unknown_tools, not added and not
\* mentioned; otherwise with fail_on_unknown_tools not added and reported by
\* an "Error: Unknown tool" message; otherwise added with its own name as
\* command and no probe argument, with no error message, with a warning when
\* warn_on_unknown_tools is set to true and with none unless the setting is
\* true or the file has no [chex] table.
C25_UnknownPriority ==
    Loaded =>
        \A n \in {m \in Offered : NotDefinedElsewhere(m)} :
            IF n \in DOMAIN knownToolMappings
            THEN /\ AddedFromManifest(n)
                 /\ ret.Tools[n].CLI = knownToolMappings[n].CLI
                 /\ ~Messaged(n)
            ELSE IF SkipOn
            THEN n \notin DOMAIN ret.Tools /\ ~Messaged(n)
            ELSE IF FailOn
            THEN /\ n \notin DOMAIN ret.Tools
                 /\ ErrorAbout(n)
                 /\ ~WarnedAbout(n)
            ELSE /\ AddedFromManifest(n)
                 /\ ret.Tools[n].CLI = n
                 /\ ret.Tools[n].VersionArg = ""
                 /\ ~ErrorAbout(n)
                 /\ WarnSetOn => WarnedAbout(n)
                 /\ WarnedAbout(n) => WarnSetOn \/ ~fs.main.chex.present

\* skip and fail are both set, mise.toml offers the unknown names "foo" and
\* "baz", and the result holds neither and no message
C25_Witness ==
    /\ Loaded
    /\ SkipOn
    /\ FailOn
    /\ {"foo", "baz"} \subseteq {m \in Offered : NotDefinedElsewhere(m)}
    /\ "foo" \notin DOMAIN ret.Tools
    /\ "baz" \notin DOMAIN ret.Tools
    /\ ret.Warnings = <<>>

----------------------------------------------------------------------------
(* Properties of runCheck (SpecRun).                                       *)

\* runCheck has returned or exited
RunDone == pc = "run_done"

\* the configuration was loaded
ConfigLoaded ==
    console.err = NoError \/ console.err[1] # "failed to load configuration: "

\* the positions of the requested names that the configuration does not hold
Absent == {i \in 1..Len(filter) : filter[i] \notin DOMAIN tools}

\* stderr names n as not found
ReportedAbsent(n) ==
    \E i \in 1..Len(console.stderr) :
        console.stderr[i] = <<"Error: tool '", n, "' not found in configuration">>

\* stderr has the heading and one line per tool of the configuration
AvailableListed ==
    /\ \E i \in 1..Len(console.stderr) : console.stderr[i] = <<"Available tools:">>
    /\ \A k \in DOMAIN tools :
          \E i \in 1..Len(console.stderr) : console.stderr[i] = <<"  - ", k>>

\* one entry per result of CheckAll, in order
AllEntries ==
    [i \in 1..Len(results) |->
        [Name |-> results[i].Tool.Name, Status |-> results[i].Status]]

\* the entry is not one of a passed check
Failing(e) == e.Status # StatusPass

\* C26 as stated: with a requested name that the configuration lacks, that
\* name and the available tools are reported, "invalid tool name" is returned
\* and nothing is printed, the held requested tools having been checked; with
\* no such name every result is printed.
C26_Claim ==
    RunDone /\ ConfigLoaded =>
        IF Absent # {}
        THEN /\ \E i \in Absent : ReportedAbsent(filter[i])
             /\ AvailableListed
             /\ console.err = <<"invalid tool name">>
             /\ console.stdout = <<>>
             /\ checked = HeldTools(filter)
        ELSE console.stdout = AllEntries

\* C26: after a successful load, an empty configuration ends the run with "no
\* tools defined in configuration" before anything is checked; otherwise,
\* with a requested name that the configuration lacks, the first such name and
\* the available tools are reported on stderr, "invalid tool name" is
\* returned and no result is printed, the held requested tools having been
\* checked; otherwise no error is returned and the results are printed, all
\* of them in the pretty and JSON formats and those that did not pass in the
\* quiet format.
C26_RunReport ==
    RunDone /\ ConfigLoaded =>
        IF DOMAIN tools = {}
        THEN /\ console.err = <<"no tools defined in configuration">>
             /\ console.stdout = <<>>
             /\ checked = <<>>
        ELSE IF Absent # {}
        THEN /\ ReportedAbsent(filter[CHOOSE i \in Absent : \A j \in Absent : i <= j])
             /\ \A i \in Absent :
                   ReportedAbsent(filter[i])
                       => filter[i] = filter[CHOOSE k \in Absent : \A j \in Absent : k <= j]
             /\ AvailableListed
             /\ console.err = <<"invalid tool name">>
             /\ console.stdout = <<>>
             /\ ~console.exited
             /\ checked = HeldTools(filter)
        ELSE /\ console.err = NoError
             /\ console.stdout = IF console.format = FormatQuiet
                                 THEN SelectSeq(AllEntries, Failing)
                                 ELSE AllEntries
             /\ console.exited <=>
                    \E i \in 1..Len(results) : results[i].Status = StatusFail

\* "go" was requested and checked, "rust" was requested and is not in the
\* configuration: it is reported and nothing is printed
C26_Witness ==
    /\ RunDone
    /\ filter = <<"go", "rust">>
    /\ DOMAIN tools = {"go", "node"}
    /\ checked = <<tools["go"]>>
    /\ Len(results) = 2
    /\ ReportedAbsent("rust")
    /\ console.err = <<"invalid tool name">>
    /\ console.stdout = <<>>

----------------------------------------------------------------------------
(* Further properties of extractVersion (SpecExtract).                     *)

\* C27 as stated: whenever extractVersion returns without an error the
\* version it returns is not empty, for the default heuristic and for every
\* pattern.
C27_Claim ==
    pc = "extract_ret" /\ ret.err = NoError => ret.version # <<>>

----------------------------------------------------------------------------
(* Further properties of CheckAll (SpecAll).                               *)

\* C28: the result under construction and every collected result has status
\* OptionalMissing only with a descriptor whose Optional is set, so a
\* descriptor that is not optional never gets it; and the outcome for a
\* requested key that the map does not hold has status Fail.
C28_OptionalOnly ==
    /\ InCheck /\ result.Status = StatusOptionalMissing => tool.Optional
    /\ \A i \in 1..Len(results) :
          /\ results[i].Status = StatusOptionalMissing =>
                /\ results[i].Tool.Optional
                /\ Held(order[i])
                /\ tools[order[i]].Optional
          /\ ~Held(order[i]) => results[i].Status = StatusFail

\* one run in which a command that is not optional was not found and failed,
\* an optional one was not found and is OptionalMissing, and a key that the
\* map does not hold failed
C28_Witness ==
    /\ AllDone
    /\ filter = <<"go", "node", "rust">>
    /\ Len(results) = 3
    /\ Held("go") /\ ~tools["go"].Optional /\ ~world["go"].found
    /\ results[1].Status = StatusFail
    /\ Held("node") /\ tools["node"].Optional
    /\ results[2].Status = StatusOptionalMissing
    /\ ~Held("rust")
    /\ results[3].Status = StatusFail

----------------------------------------------------------------------------
(* Properties of Check under fairness (SpecFair): termination and stages.  *)

\* the stages of a version check, in the order of checkVersion
StageOrder == <<"probe", "extract", "constraint", "version", "compare">>

\* the stage log is an initial part of the sequence q
StagesWithin(q) == Len(stages) <= Len(q) /\ stages = SubSeq(q, 1, Len(stages))

\* the probe and the extraction succeeded, and neither the constraint nor the
\* extracted version parses
BothInvalid ==
    /\ ProbeSucceeded
    /\ Extracted.err = NoError
    /\ ~NewConstraint(tool.Version).ok
    /\ ~NewVersion(Extracted.version).ok

\* the status is set, once, when Check returns, and is a terminal status
StatusAtReturn ==
    IF Done THEN result.Status \in {StatusPass, StatusFail, StatusOptionalMissing}
    ELSE result.Status = ""

\* the stages ran in order, none twice
StagesInOrder ==
    IF HasConstraint THEN StagesWithin(StageOrder) ELSE StagesWithin(<<"existence">>)

\* a version check that ended before the comparison ended at the stage that
\* failed, with that stage's reason and no pass
EndsAtFirstFailure ==
    Done /\ HasConstraint /\ stages # StageOrder =>
        /\ result.Error # NoError
        /\ result.Status # StatusPass
        /\ stages = <<"probe">> <=> ProbeFailed
        /\ stages = <<"probe", "extract">> <=> ProbeSucceeded /\ Extracted.err # NoError

\* with both the constraint and the version invalid the constraint is reported
ConstraintReportedFirst ==
    Done /\ BothInvalid =>
        /\ stages = <<"probe", "extract", "constraint">>
        /\ result.Error[1] = "invalid version constraint '"
        /\ result.Status = StatusFail

\* C29: every Check returns, with exactly one status out of Pass, Fail and
\* OptionalMissing that is set when it returns; the stages of a version check
\* run in the order probe, extraction, constraint parse, version parse,
\* comparison; the check ends at the first stage that fails; and with an
\* invalid constraint and an invalid extracted version the reason is the
\* invalid constraint.
C29_Terminates ==
    /\ <>Done
    /\ [](StatusAtReturn /\ StagesInOrder /\ EndsAtFirstFailure
            /\ ConstraintReportedFirst)

\* a check returned in which the constraint and the extracted version are both
\* invalid
C29_Witness ==
    /\ Done
    /\ BothInvalid
    /\ tool.Optional
    /\ result.Error[1] = "invalid version constraint '"

----------------------------------------------------------------------------
(* Further properties of LoadAndMerge (SpecLoad): order of the sources.    *)

\* the source would add the name to a map that does not hold it
Adds(src, n) ==
    IF src.Type = "chex"
    THEN fs.files[src.Path].exists /\ n \in DOMAIN fs.files[src.Path].tools
    ELSE n \in Offers(src) /\ (n \in DOMAIN knownToolMappings \/ ~(SkipOn \/ FailOn))

\* the first source in use that adds the name, 0 when there is none
FirstAdding(n) ==
    LET hits == {i \in 1..Len(UsedSources) : Adds(UsedSources[i], n)} IN
    IF hits = {} THEN 0 ELSE CHOOSE i \in hits : \A j \in hits : i <= j

\* the first line of .tool-versions that defines the name
FirstLineFor(lines, n) ==
    lines[CHOOSE i \in 1..Len(lines) :
            /\ ~lines[i].comment /\ Len(lines[i].fields) >= 2 /\ lines[i].fields[1] = n
            /\ \A j \in 1..(i - 1) :
                  lines[j].comment \/ Len(lines[j].fields) < 2 \/ lines[j].fields[1] # n]

\* the constraint that the source states for the name
VersionIn(src, n) ==
    LET f == fs.files[src.Path] IN
    IF src.Type = "chex" THEN f.tools[n].Version
    ELSE IF src.Type = "mise"
    THEN (IF f.tools[n].kind = "string" THEN f.tools[n].str
          ELSE IF f.tools[n].hasVersion THEN f.tools[n].version ELSE "")
    ELSE FirstLineFor(f.lines, n).fields[2]

\* C30: a tool that the main config does not define is the one of the first
\* source in use that adds it, with that source's label and constraint: with
\* auto-detection mise.toml comes before .tool-versions, with explicit sources
\* the list's order decides, and within .tool-versions the first line for a
\* name decides; no later source or line replaces it.
C30_FirstSourceWins ==
    Loaded =>
        \A n \in DOMAIN ret.Tools \ DOMAIN fs.main.tools :
            /\ FirstAdding(n) > 0
            /\ ret.Tools[n].Source =
                  <<UsedSources[FirstAdding(n)].Type \o ":",
                    UsedSources[FirstAdding(n)].Path>>
            /\ ret.Tools[n].Version = VersionIn(UsedSources[FirstAdding(n)], n)

\* the list names .tool-versions before mise.toml, both define "golang", and
\* the result has the first line of .tool-versions for it
C30_Witness ==
    /\ Loaded
    /\ fs.main.chex.present
    /\ fs.main.chex.sources.list = <<SourceToolVersions, SourceMise>>
    /\ "golang" \notin DOMAIN fs.main.tools
    /\ "golang" \in Offers(SourceMise)
    /\ Len(fs.files[".tool-versions"].lines) = 3
    /\ "golang" \in Offers(SourceToolVersions)
    /\ ret.Tools["golang"].Source = <<"tool-versions:", ".tool-versions">>
    /\ ret.Tools["golang"].Version = "1.20"

============================================================================
